---- MODULE Spec2Model ----
(***************************************************************************)
(* The per-timer run supervisor (hooks/useMultiTimerRunner.ts) and the     *)
(* step executors (utils/blockExecutors.ts) of the Universal Timer, its     *)
(* stopwatch, and the tree algebra of its editors                          *)
(* (components/editor/blockTree.ts, components/AlarmEditor.tsx).           *)
(*                                                                         *)
(* JavaScript runs one task at a time.  A handler (start, pause, restart,  *)
(* stop, a timer callback, a sound event) runs to completion; a promise    *)
(* it resolves only makes the awaiting run "ready", and every ready run    *)
(* continues (as a microtask) before the next task starts.  A run then     *)
(* executes up to its next real suspension: a sleep, a pending             *)
(* waitWhilePaused promise, a pending playSoundOnce promise, or a pending  *)
(* Notification.requestPermission().  A loop whose children never suspend  *)
(* stays "ready" for ever: no task is taken again.                         *)
(*                                                                         *)
(* Spec has two timers of waits and sounds; SpecTree, SpecUntil and        *)
(* SpecNotify each have one timer, with loops and unknown kinds, with a    *)
(* WaitUntil and the time of day, and with Notify / NotifyUntil.           *)
(* SpecWatch has a stopwatch next to an alarm timer, with the clock        *)
(* running.  SpecEdit applies the handlers of the editors to a draft       *)
(* drawn from Drafts.  SpecTime applies the time utilities                 *)
(* (utils/time.ts) through the play menu to blocks and instants drawn      *)
(* from bounded sets, on days of 23, 24 and 25 hours; SpecWait runs the    *)
(* waits of those amounts.  SpecNames applies the handlers of App.tsx      *)
(* that create, rename, import and delete timers to the hook useTimers     *)
(* (hooks/useTimers.ts), with the table of the database behind it.         *)
(*                                                                         *)
(* use-sound and React are not part of the repository; what the hook       *)
(* relies on is modelled where the hook uses it (soundEffect,              *)
(* soundHandler, SoundEvent, SoundLoaded).                                 *)
(***************************************************************************)
EXTENDS Integers, Sequences, FiniteSets, TLC

VARIABLES
  timers,        \* the Timer values handed to start/restart: id -> Timer
  controlRefs,   \* controlRefs.current: id -> {abort, paused, resumeResolvers}
  runningMap,    \* runningMap: id -> RunnerState
  runs,          \* every startBlocks invocation so far, in order of creation
  resolveRef,    \* resolveRef.current: the run whose resolve is stored, 0 = null
  activeSrc,     \* the activeSrc state
  activeSound,   \* whether useSound has delivered a sound object (non-null)
  playing,       \* a playback with a finish listener is in flight
  now,           \* Date.now(), as ms since local midnight (NoClock: not read)
  today,         \* the length of the local day of now: 24 hours, or 23 or
                 \* 25 on a day the clocks change
  permission,    \* Notification.permission, or "unavailable"
  notes,         \* the Notification objects shown, and their handlers
  stopwatchMap,  \* stopwatchMap: id -> {elapsedMs, isRunning, startedAt};
                 \* an id without an entry has ZeroEntry
  draft,         \* draft.blocks of the timer editor
  useTimers,     \* the hook useTimers: timers (its state, as last rendered),
                 \* db (the timers table) and n (the ids createId has made)
  ev             \* the last handler that ran and what it did (history)

vars == <<timers, controlRefs, runningMap, runs, resolveRef, activeSrc,
          activeSound, playing, now, today, permission, notes, stopwatchMap,
          draft, useTimers, ev>>

\* ------------------------------------------------------------------ bounds
MaxRuns == 2
MaxPauseTicks == 2
MaxClockTicks == 4
MaxEdits == 2
MaxTimers == 3
MaxRows == 2
WatchTicks == 2

\* --------------------------------------------------------- program constants
SleepSliceMs == 250
NotifySleepMs == 200
DefaultTimeoutMs == 10000
DefaultUrl == "/sounds/alarm.mp3"
CustomUrl == "blob:custom"

\* The clock is observed once per sleep slice.
Quantum == SleepSliceMs
MaxSince == MaxPauseTicks * Quantum

\* The time of day the clock starts at, where a timer reads it: half a second
\* before 7:00 AM.
ClockStart == 7 * 60 * 60 * 1000 - 500

\* --------------------------------------------------------------- null values
NullId == "null"          \* activeBlockId: null
NullMs == <<>>            \* remainingMs: null; a number n is <<n>>
Ms(n) == <<n>>
NoRun == 0                \* resolveRef.current = null
NaNMs == <<0, 0>>         \* remainingMs: NaN
NoClock == -1             \* no step of the timers reads the time of day
Infinity == -1            \* the repeat count of an endless loop

Min(a, b) == IF a < b THEN a ELSE b
Max(a, b) == IF a > b THEN a ELSE b

Put(f, k, v) == (k :> v) @@ f

\* ------------------------------------------------------------------- blocks
Block(id, type) ==
  [id |-> id, type |-> type, amount |-> 0, unit |-> "seconds",
   soundType |-> "default", customUrl |-> "", repeat |-> 1, children |-> <<>>,
   time |-> <<>>, ampm |-> "AM", timeoutMs |-> NullMs]

WaitBlock(id, amount, unit) ==
  [Block(id, "wait") EXCEPT !.amount = amount, !.unit = unit]

PlaySoundBlock(id, soundType, customUrl) ==
  [Block(id, "playSound") EXCEPT !.soundType = soundType, !.customUrl = customUrl]

LoopBlock(id, repeat, children) ==
  [Block(id, "loop") EXCEPT !.repeat = repeat, !.children = children]

\* time is the string as the sequence of its characters.
WaitUntilBlock(id, time, ampm) ==
  [Block(id, "waitUntil") EXCEPT !.time = time, !.ampm = ampm]

NotifyBlock(id) == Block(id, "notify")

NotifyUntilBlock(id, timeoutMs, children) ==
  [Block(id, "notifyUntil") EXCEPT !.timeoutMs = timeoutMs,
                                   !.children = children]

Timer(id, blocks) == [id |-> id, mode |-> "alarm", blocks |-> blocks]

Stopwatch(id) == [id |-> id, mode |-> "simpleStopwatch", blocks |-> <<>>]

\* ---------------------------------------------------------------- time utils
\* amount: undefined.  No timer waits that long backwards.
NoAmount == -1000000

\* `amount || 0`: 0 for undefined (and for NaN and 0).
OrZero(amount) == IF amount = NoAmount THEN 0 ELSE amount

unitToMs(amount, unit) ==
  CASE unit = "seconds" -> amount * 1000
    [] unit = "minutes" -> amount * 60 * 1000
    [] unit = "hours" -> amount * 60 * 60 * 1000
    [] unit = "days" -> amount * 24 * 60 * 60 * 1000
    [] OTHER -> amount * 1000

\* A string is the sequence of its characters; a number that may be NaN is a
\* record [nan, val].
Digits == <<"0", "1", "2", "3", "4", "5", "6", "7", "8", "9">>
IsDigit(c) == \E d \in DOMAIN Digits : Digits[d] = c
DigitVal(c) == (CHOOSE d \in DOMAIN Digits : Digits[d] = c) - 1
Num(n) == [nan |-> FALSE, val |-> n]
NaN == [nan |-> TRUE, val |-> 0]

HourMs == 60 * 60 * 1000
MinuteMs == 60 * 1000
DayMs == 24 * HourMs
DefaultTime == <<"0", "7", ":", "0", "0">>

\* The number of digits s starts with, and the number they write.
RECURSIVE LeadDigits(_)
LeadDigits(s) ==
  IF s # <<>> /\ IsDigit(s[1]) THEN 1 + LeadDigits(Tail(s)) ELSE 0

RECURSIVE Value(_)
Value(s) ==
  IF s = <<>> THEN 0
  ELSE 10 * Value(SubSeq(s, 1, Len(s) - 1)) + DigitVal(s[Len(s)])

RECURSIVE TrimStart(_)
TrimStart(s) == IF s # <<>> /\ s[1] = " " THEN TrimStart(Tail(s)) ELSE s

RECURSIVE TrimEnd(_)
TrimEnd(s) ==
  IF s # <<>> /\ s[Len(s)] = " " THEN TrimEnd(SubSeq(s, 1, Len(s) - 1)) ELSE s

\* parseInt(str, 10): leading blanks, a sign, then the digits up to the first
\* other character; NaN without a digit there.
parseInt(str) ==
  LET s == TrimStart(str)
      signed == s # <<>> /\ s[1] \in {"-", "+"}
      body == IF signed THEN Tail(s) ELSE s
      n == LeadDigits(body)
  IN IF n = 0 THEN NaN
     ELSE Num((IF signed /\ s[1] = "-" THEN -1 ELSE 1) * Value(SubSeq(body, 1, n)))

\* str.split(":"): what stands before the first colon, and the rest after it
\* (<<"undefined">> when there is no colon).
Colon(s) ==
  IF \E k \in DOMAIN s : s[k] = ":"
    THEN CHOOSE k \in DOMAIN s : s[k] = ":" /\ \A j \in 1..(k - 1) : s[j] # ":"
    ELSE Len(s) + 1
Before(s) == SubSeq(s, 1, Colon(s) - 1)
After(s) == SubSeq(s, Colon(s) + 1, Len(s))

\* The clocks change at 2:00.
ChangeAt == 2 * HourMs

\* Date.prototype.setHours on a day of `day` milliseconds: where the wall
\* time `wall` (ms after 0:00, carried over into the next days when it is
\* 24:00 or more) lies after the local midnight of today.  On a day the
\* clocks change, the times from 2:00 on lie an hour later (clocks back, 25
\* hours) or earlier (clocks forward, 23 hours; the hour left out is taken
\* an hour on).
setHours(day, wall) ==
  IF wall < ChangeAt \/ wall + (day - DayMs) < ChangeAt THEN wall
  ELSE wall + (day - DayMs)

\* clock is new Date() as milliseconds since the local midnight of a day of
\* `day` milliseconds; setHours carries hours and minutes out of range over,
\* and makes the date invalid for NaN, after which every comparison is false
\* and every difference NaN.  setDate(getDate() + 1) is the same wall time of
\* the next day.
msUntilTime(clock, day, time, ampm) ==
  LET hhStr == Before(time)
      mmStr == IF Colon(time) > Len(time) THEN <<>> ELSE Before(After(time))
      hh == parseInt(hhStr)
      minute == parseInt(IF mmStr = <<>> THEN <<"0">> ELSE mmStr)
      pm == IF ampm = "PM" /\ (hh.nan \/ hh.val # 12)
              THEN [hh EXCEPT !.val = @ + 12] ELSE hh
      hour == IF ampm = "AM" /\ ~pm.nan /\ pm.val = 12 THEN Num(0) ELSE pm
      wall == hour.val * HourMs + minute.val * MinuteMs
      target == setHours(day, wall)
  IN IF hour.nan \/ minute.nan THEN NaN
     ELSE Num((IF target <= clock THEN setHours(day, wall + DayMs)
                                  ELSE target) - clock)

\* Number.prototype.toString of 0..99, and padStart(2, "0").
toString(n) ==
  IF n < 10 THEN <<Digits[n + 1]>>
  ELSE <<Digits[(n \div 10) + 1], Digits[(n % 10) + 1]>>
padStart(s) == IF Len(s) < 2 THEN <<"0">> \o s ELSE s

sanitizeTimeInput(value, fallback) ==
  LET trimmed == TrimEnd(TrimStart(value))
      hh == Before(trimmed)
      mm == After(trimmed)
      match == /\ Colon(trimmed) <= Len(trimmed)
               /\ Len(hh) \in {1, 2} /\ LeadDigits(hh) = Len(hh)
               /\ Len(mm) = 2 /\ LeadDigits(mm) = 2
      hours == Value(hh)
      minutes == Value(mm)
  IN IF ~match THEN fallback
     ELSE IF hours < 1 \/ hours > 12 THEN fallback
     ELSE IF minutes < 0 \/ minutes > 59 THEN fallback
     ELSE toString(hours) \o <<":">> \o padStart(toString(minutes))

\* getInitialRemainingMs of the play menu: what it shows for a timer that has
\* not started, and the call it makes (history).
getInitialRemainingMs(blocks, clock, day) ==
  IF blocks = <<>> THEN [fn |-> "", result |-> NullMs]
  ELSE LET firstBlock == blocks[1]
       IN CASE firstBlock.type = "wait" ->
                 [fn |-> "unitToMs", amount |-> OrZero(firstBlock.amount),
                  unit |-> firstBlock.unit,
                  result |-> Ms(unitToMs(OrZero(firstBlock.amount),
                                         firstBlock.unit))]
            [] firstBlock.type = "waitUntil" ->
                 LET time == IF firstBlock.time = <<>> THEN DefaultTime
                             ELSE firstBlock.time
                     ms == msUntilTime(clock, day, time, firstBlock.ampm)
                 IN [fn |-> "msUntilTime", time |-> time,
                     ampm |-> firstBlock.ampm, clock |-> clock, day |-> day,
                     result |-> IF ms.nan THEN NaNMs ELSE Ms(ms.val)]
            [] OTHER -> [fn |-> "", result |-> NullMs]

\* ------------------------------------------------------------------ useTimers
\* A timer of the list, as far as its name goes.
Named(id, name) == [id |-> id, name |-> name]

\* useState<Timer[]>([]), an empty table, no id made yet.
NoTimers == [timers |-> <<>>, db |-> <<>>, n |-> 0]

NoId == <<>>
NewTimerName == <<"N", "e", "w", " ", "T", "i", "m", "e", "r">>

\* String.prototype.trim and toLowerCase, on the letters the names are of.
trim(s) == TrimEnd(TrimStart(s))

Capitals == <<"A", "N", "S", "T">>
Smalls == <<"a", "n", "s", "t">>

RECURSIVE toLowerCase(_)
toLowerCase(s) ==
  IF s = <<>> THEN <<>>
  ELSE <<IF \E c \in DOMAIN Capitals : Capitals[c] = s[1]
           THEN Smalls[CHOOSE c \in DOMAIN Capitals : Capitals[c] = s[1]]
           ELSE s[1]>> \o toLowerCase(Tail(s))

\* The while loop of makeUniqueName.
RECURSIVE Candidate(_, _, _)
Candidate(base, existing, i) ==
  IF toLowerCase(base \o toString(i)) \in existing
    THEN Candidate(base, existing, i + 1)
    ELSE base \o toString(i)

makeUniqueName(baseName, ts, ignoreId) ==
  LET base == IF trim(baseName) = <<>> THEN NewTimerName ELSE trim(baseName)
      existing == {toLowerCase(trim(ts[k].name)) :
                     k \in {j \in DOMAIN ts : ts[j].id # ignoreId}}
  IN IF toLowerCase(base) \notin existing THEN base
     ELSE Candidate(base, existing, 2)

\* createId: an id no timer has had, after n others.
createId(n) == <<"t">> \o toString(n + 1)

\* A handler of the app works on h: rendered is the `timers` its closures
\* hold (the state as of the last render), timers the state with the updates
\* queued so far applied in order, db the table; calls (history) is what the
\* handler has called.
Rendered ==
  [rendered |-> useTimers.timers, timers |-> useTimers.timers,
   db |-> useTimers.db, n |-> useTimers.n, created |-> Named(NoId, <<>>),
   calls |-> <<>>]

Record(h, fn, t, requested, after) ==
  Append(h.calls, [fn |-> fn, id |-> t.id, name |-> t.name,
                   requested |-> requested, before |-> h.timers,
                   after |-> after])

RECURSIVE Replace(_, _)
Replace(ts, t) ==
  IF ts = <<>> THEN <<>>
  ELSE <<IF ts[1].id = t.id THEN t ELSE ts[1]>> \o Replace(Tail(ts), t)

RECURSIVE Remove(_, _)
Remove(ts, id) ==
  IF ts = <<>> THEN <<>>
  ELSE (IF ts[1].id = id THEN <<>> ELSE <<ts[1]>>) \o Remove(Tail(ts), id)

\* setTimers(next) replaces the state by the list built from the closure's.
createTimer(h) ==
  LET created == Named(createId(h.n),
                       makeUniqueName(NewTimerName, h.rendered, NoId))
  IN [h EXCEPT !.timers = Append(h.rendered, created),
               !.db = Put(@, created.id, created),
               !.n = @ + 1,
               !.created = created,
               !.calls = Record(h, "createTimer", created, NewTimerName,
                                Append(h.rendered, created))]

\* setTimers((prev) => ...) works on the state as queued.
updateTimer(h, updated) ==
  LET nextName == makeUniqueName(updated.name, h.rendered, updated.id)
      normalized == [updated EXCEPT !.name = nextName]
  IN [h EXCEPT !.timers = Replace(@, normalized),
               !.db = Put(@, normalized.id, normalized),
               !.calls = Record(h, "updateTimer", normalized, updated.name,
                                Replace(h.timers, normalized))]

deleteTimer(h, id) ==
  [h EXCEPT !.timers = Remove(@, id),
            !.db = [k \in DOMAIN h.db \ {id} |-> h.db[k]]]

\* ---------------------------------------------------------------- the world
\* Everything a handler reads and writes, threaded through the operators below
\* the way the statements of the handler follow each other.
World ==
  [controlRefs |-> controlRefs, runningMap |-> runningMap, runs |-> runs,
   resolveRef |-> resolveRef, activeSrc |-> activeSrc,
   activeSound |-> activeSound, playing |-> playing, now |-> now,
   today |-> today, permission |-> permission, notes |-> notes,
   stopwatchMap |-> stopwatchMap, ev |-> ev]

Event(op, tid, run) ==
  [op |-> op, tid |-> tid, run |-> run, activated |-> <<>>,
   reported |-> FALSE, sound |-> FALSE, fresh |-> FALSE, pausedMs |-> 0,
   counted |-> 0, loops |-> <<>>, until |-> <<>>, notified |-> <<>>,
   cycles |-> <<>>, exits |-> <<>>, blockedCounted |-> 0, edits |-> 0,
   edit |-> <<>>, call |-> <<>>, calls |-> <<>>,
   watch |-> IF tid \in DOMAIN timers /\ timers[tid].mode = "simpleStopwatch"
                  /\ tid \in DOMAIN stopwatchMap
               THEN stopwatchMap[tid] ELSE <<>>]

Idle == [isRunning |-> FALSE, activeBlockId |-> NullId, remainingMs |-> NullMs]

\* A stack frame of a run: the function, where in it the run continues, the
\* blocks it works on (an executor holds its one block), and its locals.
\* since is Date.now() - last; pausedSince (history) is the part of it that
\* passed while the pause flag of the timer was set.
Frame(fn, pc, blocks) ==
  [fn |-> fn, pc |-> pc, blocks |-> blocks, i |-> 1, n |-> 0,
   remaining |-> 0, since |-> 0, pausedSince |-> 0, passes |-> 0,
   nan |-> FALSE, total |-> 0, calls |-> 0, perm |-> "",
   userDismissed |-> FALSE, blockedSince |-> 0, note |-> 0]

Top(w, r) == w.runs[r].stack[Len(w.runs[r].stack)]

SetTop(w, r, f) ==
  [w EXCEPT !.runs[r].stack[Len(w.runs[r].stack)] = f]

Push(w, r, f) == [w EXCEPT !.runs[r].stack = Append(@, f)]

Pop(w, r) == [w EXCEPT !.runs[r].stack = SubSeq(@, 1, Len(@) - 1)]

\* A pending promise of run r is resolved: r continues as a microtask.
Resolve(w, r) == [w EXCEPT !.runs[r].await = "ready"]

RECURSIVE ResolveAll(_, _)
ResolveAll(w, rs) ==
  IF rs = <<>> THEN w ELSE ResolveAll(Resolve(w, Head(rs)), Tail(rs))

\* ------------------------------------------------------------ shared audio
stopAudio(w) ==
  LET w1 == [w EXCEPT !.playing = FALSE]
  IN IF w1.resolveRef # NoRun
       THEN [Resolve(w1, w1.resolveRef) EXCEPT !.resolveRef = NoRun]
       ELSE w1

\* The effect on [activeSound, playInternal]: with a stored resolve and a sound
\* object, register finish and play.
soundEffect(w) ==
  IF w.resolveRef # NoRun /\ w.activeSound
    THEN [w EXCEPT !.playing = TRUE]
    ELSE w

\* playSoundOnce as the run captured it when startBlocks built ctx: activeSrc
\* and activeSound are those of the render that start was called from.
playSoundOnce(w, r, url) ==
  LET targetUrl == IF url = "" THEN DefaultUrl ELSE url
      run == w.runs[r]
      w1 == [w EXCEPT !.resolveRef = r, !.runs[r].await = "sound",
                      !.ev.sound = TRUE]
  IN IF targetUrl = run.capSrc /\ run.capSound
       THEN [w1 EXCEPT !.playing = TRUE]
       ELSE IF targetUrl # w1.activeSrc
              THEN soundEffect([w1 EXCEPT !.activeSrc = targetUrl])
              ELSE w1

\* end / stop listeners (finish) and the onloaderror, onplayerror handlers.
soundHandler(w) ==
  LET w1 == [w EXCEPT !.playing = FALSE]
  IN IF w1.resolveRef # NoRun
       THEN [Resolve(w1, w1.resolveRef) EXCEPT !.resolveRef = NoRun]
       ELSE w1

\* -------------------------------------------------------------- supervisor
NewControl == [abort |-> FALSE, paused |-> FALSE, resumeResolvers |-> <<>>]

getControl(w, t) ==
  IF t \in DOMAIN w.controlRefs THEN w
  ELSE [w EXCEPT !.controlRefs = Put(@, t, NewControl)]

settlePauseWaiters(w, t) ==
  IF t \notin DOMAIN w.controlRefs THEN w
  ELSE [ResolveAll(w, w.controlRefs[t].resumeResolvers)
          EXCEPT !.controlRefs[t].resumeResolvers = <<>>]

\* History: the runs of t that were live when abort was set.
RECURSIVE MarkAbortedFrom(_, _, _)
MarkAbortedFrom(w, t, r) ==
  IF r > Len(w.runs) THEN w
  ELSE MarkAbortedFrom(
         IF w.runs[r].tid = t /\ w.runs[r].await # "done"
           THEN [w EXCEPT !.runs[r].aborted = TRUE] ELSE w, t, r + 1)

MarkAborted(w, t) == MarkAbortedFrom(w, t, 1)

stopBlocks(w, t) ==
  LET w1 == IF t \in DOMAIN w.controlRefs
              THEN settlePauseWaiters(
                     MarkAborted(
                       [w EXCEPT !.controlRefs[t].abort = TRUE,
                                 !.controlRefs[t].paused = FALSE], t), t)
              ELSE w
      w2 == stopAudio(w1)
  IN [w2 EXCEPT !.runningMap = Put(@, t, Idle)]

\* pauseBlocks that resets the reported state the way stopBlocks does.
pauseBlocksResetting(w, t) ==
  IF t \notin DOMAIN w.controlRefs \/ w.controlRefs[t].abort THEN w
  ELSE LET w1 == [w EXCEPT !.controlRefs[t].paused = TRUE]
           w2 == stopAudio(w1)
       IN IF t \notin DOMAIN w2.runningMap THEN w2
          ELSE [w2 EXCEPT !.runningMap[t] = Idle]

pauseBlocks(w, t) ==
  IF t \notin DOMAIN w.controlRefs \/ w.controlRefs[t].abort THEN w
  ELSE LET w1 == [w EXCEPT !.controlRefs[t].paused = TRUE]
           w2 == stopAudio(w1)
       IN IF t \notin DOMAIN w2.runningMap THEN w2
          ELSE [w2 EXCEPT !.runningMap[t].isRunning = FALSE]

\* resumeBlocks that clears the pause flag and wakes no waiter.
resumeBlocksWakingNone(w, t) ==
  IF t \notin DOMAIN w.controlRefs \/ w.controlRefs[t].abort
     \/ ~w.controlRefs[t].paused THEN w
  ELSE LET w1 == [w EXCEPT !.controlRefs[t].paused = FALSE]
       IN IF t \notin DOMAIN w1.runningMap THEN w1
          ELSE [w1 EXCEPT !.runningMap[t].isRunning = TRUE]

resumeBlocks(w, t) ==
  IF t \notin DOMAIN w.controlRefs \/ w.controlRefs[t].abort
     \/ ~w.controlRefs[t].paused THEN w
  ELSE LET w1 == [w EXCEPT !.controlRefs[t].paused = FALSE]
           w2 == settlePauseWaiters(w1, t)
       IN IF t \notin DOMAIN w2.runningMap THEN w2
          ELSE [w2 EXCEPT !.runningMap[t].isRunning = TRUE]

\* ----------------------------------------------------------- run context
abort(w, t) == w.controlRefs[t].abort

isPaused(w, t) == w.controlRefs[t].paused

updateState(w, t, activeBlockId, remainingMs) ==
  [w EXCEPT !.runningMap =
     Put(@, t, [isRunning |-> ~abort(w, t) /\ ~isPaused(w, t),
                activeBlockId |-> activeBlockId,
                remainingMs |-> remainingMs])]

\* waitWhilePaused, called with the caller's continuation already in the frame.
RECURSIVE Exec(_, _)
waitWhilePaused(w, r) ==
  LET t == w.runs[r].tid
  IN IF ~isPaused(w, t) THEN Exec(w, r)
     ELSE [w EXCEPT !.controlRefs[t].resumeResolvers = Append(@, r),
                    !.runs[r].await = "resume"]

sleep(w, r, ms) == [w EXCEPT !.runs[r].await = "sleep", !.runs[r].sleep = ms]

\* An executor (or a nested runBlocks) returns: its caller continues.
Return(w, r) == Exec(Pop(w, r), r)

\* ---------------------------------------------------------------- executors
runWait(w, r) ==
  LET f == Top(w, r)
      block == f.blocks[1]
      t == w.runs[r].tid
      exit(v) == Return(updateState(v, t, block.id, NullMs), r)
      counted == [w EXCEPT !.ev.counted = @ + f.pausedSince]
  IN CASE f.pc = "entry" ->
            LET remaining == unitToMs(Max(0, OrZero(block.amount)), block.unit)
            IN IF remaining <= 0 THEN Return(w, r)
               ELSE Exec(SetTop(w, r, [f EXCEPT !.remaining = remaining,
                                                !.since = 0, !.pausedSince = 0,
                                                !.pc = "while"]), r)
       [] f.pc = "while" ->
            IF abort(w, t) THEN exit(w)
            ELSE IF isPaused(w, t)
              THEN waitWhilePaused(SetTop(w, r, [f EXCEPT !.pc = "resumed"]), r)
            ELSE LET remaining == f.remaining - f.since
                 IN IF remaining <= 0 THEN exit(counted)
                    ELSE sleep(
                           [updateState(
                              SetTop(counted, r,
                                     [f EXCEPT !.remaining = remaining,
                                               !.since = 0, !.pausedSince = 0]),
                              t, block.id, Ms(remaining))
                            EXCEPT !.ev.reported = TRUE],
                           r, Min(SleepSliceMs, remaining))
       [] f.pc = "resumed" ->
            Exec([SetTop(w, r, [f EXCEPT !.since = 0, !.pausedSince = 0,
                                         !.pc = "while"])
                    EXCEPT !.ev.pausedMs = f.since], r)

\* runWaitUntil that resolves the clock time again when it is resumed.
runWaitUntilResolvingAgain(w, r) ==
  LET f == Top(w, r)
      block == f.blocks[1]
      t == w.runs[r].tid
      time == IF block.time = <<>> THEN DefaultTime ELSE block.time
      resolve(v) ==
        [v EXCEPT !.ev.until =
           Append(@, [id |-> block.id, time |-> time,
                      ms |-> msUntilTime(v.now, v.today, time, block.ampm)])]
      exit(v) == Return(updateState(v, t, block.id, NullMs), r)
      counted == [w EXCEPT !.ev.counted = @ + f.pausedSince]
  IN CASE f.pc = "entry" ->
            LET ms == msUntilTime(w.now, w.today, time, block.ampm)
            IN IF ~ms.nan /\ ms.val <= 0 THEN Return(resolve(w), r)
               ELSE Exec(SetTop(resolve(w), r,
                                [f EXCEPT !.remaining = ms.val, !.nan = ms.nan,
                                          !.total = ms.val, !.calls = @ + 1,
                                          !.since = 0, !.pausedSince = 0,
                                          !.pc = "while"]), r)
       [] f.pc = "while" ->
            IF abort(w, t) THEN exit(w)
            ELSE IF isPaused(w, t)
              THEN waitWhilePaused(SetTop(w, r, [f EXCEPT !.pc = "resumed"]), r)
            ELSE IF f.nan
              THEN sleep(
                     [updateState(
                        SetTop(counted, r,
                               [f EXCEPT !.since = 0, !.pausedSince = 0]),
                        t, block.id, NaNMs)
                      EXCEPT !.ev.reported = TRUE],
                     r, 0)
            ELSE LET remaining == f.remaining - f.since
                 IN IF remaining <= 0 THEN exit(counted)
                    ELSE sleep(
                           [updateState(
                              SetTop(counted, r,
                                     [f EXCEPT !.remaining = remaining,
                                               !.since = 0, !.pausedSince = 0]),
                              t, block.id, Ms(remaining))
                            EXCEPT !.ev.reported = TRUE],
                           r, Min(SleepSliceMs, remaining))
       [] f.pc = "resumed" ->
            LET ms == msUntilTime(w.now, w.today, time, block.ampm)
            IN Exec([SetTop(resolve(w), r,
                            [f EXCEPT !.remaining = ms.val, !.nan = ms.nan,
                                      !.calls = @ + 1,
                                      !.since = 0, !.pausedSince = 0,
                                      !.pc = "while"])
                       EXCEPT !.ev.pausedMs = f.since], r)

\* A NaN remaining fails every comparison; Math.min(250, NaN) is NaN and the
\* timer of sleep(NaN) is due at once.  ev.until (history) lists the calls of
\* msUntilTime, total and calls (history) the first result and their number.
runWaitUntil(w, r) ==
  LET f == Top(w, r)
      block == f.blocks[1]
      t == w.runs[r].tid
      time == IF block.time = <<>> THEN DefaultTime ELSE block.time
      resolve(v) ==
        [v EXCEPT !.ev.until =
           Append(@, [id |-> block.id, time |-> time,
                      ms |-> msUntilTime(v.now, v.today, time, block.ampm)])]
      exit(v) == Return(updateState(v, t, block.id, NullMs), r)
      counted == [w EXCEPT !.ev.counted = @ + f.pausedSince]
  IN CASE f.pc = "entry" ->
            LET ms == msUntilTime(w.now, w.today, time, block.ampm)
            IN IF ~ms.nan /\ ms.val <= 0 THEN Return(resolve(w), r)
               ELSE Exec(SetTop(resolve(w), r,
                                [f EXCEPT !.remaining = ms.val, !.nan = ms.nan,
                                          !.total = ms.val, !.calls = @ + 1,
                                          !.since = 0, !.pausedSince = 0,
                                          !.pc = "while"]), r)
       [] f.pc = "while" ->
            IF abort(w, t) THEN exit(w)
            ELSE IF isPaused(w, t)
              THEN waitWhilePaused(SetTop(w, r, [f EXCEPT !.pc = "resumed"]), r)
            ELSE IF f.nan
              THEN sleep(
                     [updateState(
                        SetTop(counted, r,
                               [f EXCEPT !.since = 0, !.pausedSince = 0]),
                        t, block.id, NaNMs)
                      EXCEPT !.ev.reported = TRUE],
                     r, 0)
            ELSE LET remaining == f.remaining - f.since
                 IN IF remaining <= 0 THEN exit(counted)
                    ELSE sleep(
                           [updateState(
                              SetTop(counted, r,
                                     [f EXCEPT !.remaining = remaining,
                                               !.since = 0, !.pausedSince = 0]),
                              t, block.id, Ms(remaining))
                            EXCEPT !.ev.reported = TRUE],
                           r, Min(SleepSliceMs, remaining))
       [] f.pc = "resumed" ->
            Exec([SetTop(w, r, [f EXCEPT !.since = 0, !.pausedSince = 0,
                                         !.pc = "while"])
                    EXCEPT !.ev.pausedMs = f.since], r)

runPlaySound(w, r) ==
  LET f == Top(w, r)
      block == f.blocks[1]
      t == w.runs[r].tid
      type == IF block.soundType = "custom" THEN "url" ELSE block.soundType
      url == IF type = "default" THEN DefaultUrl
             ELSE IF block.customUrl # "" THEN block.customUrl ELSE DefaultUrl
      play == playSoundOnce(SetTop(w, r, [f EXCEPT !.pc = "played"]), r, url)
  IN CASE f.pc = "entry" ->
            IF isPaused(w, t)
              THEN waitWhilePaused(SetTop(w, r, [f EXCEPT !.pc = "resumed"]), r)
              ELSE play
       [] f.pc = "resumed" -> IF abort(w, t) THEN Return(w, r) ELSE play
       [] f.pc = "played" ->
            IF abort(w, t) THEN Return(w, r)
            ELSE IF isPaused(w, t)
              THEN waitWhilePaused(SetTop(w, r, [f EXCEPT !.pc = "end"]), r)
              ELSE Return(w, r)
       [] f.pc = "end" -> Return(w, r)

\* ------------------------------------------------------------ notifications
\* permission is Notification.permission, "unavailable" where there is no
\* Notification.  notes are the notifications shown: the step, and for those
\* with onclick and onclose the run and the depth of the frame they belong to.
Note(id, r, depth, handlers) ==
  [id |-> id, run |-> r, depth |-> depth, handlers |-> handlers, open |-> TRUE]

\* What requestNotificationPermission returns, "ask" where it awaits
\* Notification.requestPermission().
requestNotificationPermission(w) ==
  IF w.permission = "unavailable" THEN "denied"
  ELSE IF w.permission = "default" THEN "ask"
  ELSE w.permission

showNotification(w, r, block) ==
  IF w.permission = "unavailable" THEN w
  ELSE IF w.permission # "granted" THEN w
  ELSE [w EXCEPT !.notes = Append(@, Note(block.id, r, 0, FALSE)),
                 !.ev.notified = Append(@, block.id)]

runNotify(w, r) ==
  LET f == Top(w, r)
      block == f.blocks[1]
      t == w.runs[r].tid
      got(p) ==
        Return(IF p = "granted" THEN showNotification(w, r, block) ELSE w, r)
      request ==
        IF requestNotificationPermission(w) = "ask"
          THEN [SetTop(w, r, [f EXCEPT !.pc = "asked"])
                  EXCEPT !.runs[r].await = "permission"]
          ELSE got(requestNotificationPermission(w))
  IN CASE f.pc = "entry" ->
            IF isPaused(w, t)
              THEN waitWhilePaused(SetTop(w, r, [f EXCEPT !.pc = "resumed"]), r)
              ELSE request
       [] f.pc = "resumed" -> IF abort(w, t) THEN Return(w, r) ELSE request
       [] f.pc = "asked" -> got(f.perm)

\* The while condition of runNotifyUntil without the remaining timeout.
notifyUntilGoesOnPastTimeout(w, t, f) == ~abort(w, t) /\ ~f.userDismissed

\* The while condition of runNotifyUntil.
notifyUntilGoesOn(w, t, f) ==
  ~abort(w, t) /\ ~f.userDismissed /\ f.remaining > 0

\* ev.cycles (history) lists the activity cycles started, ev.exits the exits;
\* blockedSince (history) is the part of since during which the run was
\* suspended in waitWhilePaused.
runNotifyUntil(w, r) ==
  LET f == Top(w, r)
      block == f.blocks[1]
      t == w.runs[r].tid
      exit(v) ==
        Return(
          stopAudio(
            updateState(
              [v EXCEPT !.ev.exits =
                 Append(@, [id |-> block.id, remaining |-> Top(v, r).remaining,
                            dismissed |-> Top(v, r).userDismissed,
                            aborted |-> abort(v, t)])],
              t, block.id, NullMs)), r)
      sent(v, p) ==
        LET g == Top(v, r)
            v1 == IF p = "granted"
                    THEN [SetTop(v, r, [g EXCEPT !.note = Len(v.notes) + 1])
                            EXCEPT !.notes =
                                     Append(@, Note(block.id, r,
                                                    Len(v.runs[r].stack), TRUE)),
                                   !.ev.notified = Append(@, block.id)]
                    ELSE v
        IN Exec(SetTop(v1, r, [Top(v1, r) EXCEPT !.pc = "while"]), r)
      request(v) ==
        IF requestNotificationPermission(v) = "ask"
          THEN [SetTop(v, r, [Top(v, r) EXCEPT !.pc = "asked"])
                  EXCEPT !.runs[r].await = "permission"]
          ELSE sent(v, requestNotificationPermission(v))
  IN CASE f.pc = "entry" ->
            LET remaining == IF block.timeoutMs = NullMs THEN DefaultTimeoutMs
                             ELSE block.timeoutMs[1]
            IN request(updateState(
                         SetTop(w, r, [f EXCEPT !.remaining = remaining,
                                                !.since = 0, !.blockedSince = 0,
                                                !.userDismissed = FALSE,
                                                !.note = 0]),
                         t, block.id, Ms(remaining)))
       [] f.pc = "asked" -> sent(w, f.perm)
       [] f.pc = "while" ->
            IF ~notifyUntilGoesOn(w, t, f) THEN exit(w)
            ELSE IF isPaused(w, t)
              THEN waitWhilePaused(SetTop(w, r, [f EXCEPT !.pc = "resumed"]), r)
            ELSE LET w1 == [SetTop(w, r, [f EXCEPT !.pc = "after"])
                              EXCEPT !.ev.cycles =
                                Append(@, [id |-> block.id,
                                           remaining |-> f.remaining,
                                           dismissed |-> f.userDismissed])]
                 IN IF block.children # <<>>
                      THEN Exec(Push(w1, r, Frame("runBlocks", "for",
                                                  block.children)), r)
                      ELSE sleep(w1, r, NotifySleepMs)
       [] f.pc = "resumed" ->
            Exec([SetTop(w, r, [f EXCEPT !.since = 0, !.blockedSince = 0,
                                         !.pc = "while"])
                    EXCEPT !.ev.pausedMs = f.since], r)
       [] f.pc = "after" ->
            IF abort(w, t) \/ f.userDismissed THEN exit(w)
            ELSE LET remaining == f.remaining - f.since
                     w1 == [SetTop(w, r, [f EXCEPT !.remaining = remaining,
                                                   !.since = 0,
                                                   !.blockedSince = 0,
                                                   !.pc = "while"])
                              EXCEPT !.ev.blockedCounted = @ + f.blockedSince]
                 IN IF remaining <= 0 THEN exit(w1)
                    ELSE Exec([updateState(w1, t, block.id,
                                           Ms(Max(0, remaining)))
                                 EXCEPT !.ev.reported = TRUE], r)

\* Math.max(0, block.repeat) in place of Math.max(1, block.repeat || 1).
repeatCountFromZero(repeat) ==
  IF repeat = -1 THEN Infinity ELSE Max(0, repeat)

\* repeatCount without the case of -1.
repeatCountFinite(repeat) == Max(1, IF repeat = 0 THEN 1 ELSE repeat)

\* Math.max(1, block.repeat || 1), Infinity for -1.
repeatCount(repeat) ==
  IF repeat = -1 THEN Infinity
  ELSE Max(1, IF repeat = 0 THEN 1 ELSE repeat)

\* `await runBlocks(children)` hands control back at least for one microtask
\* even when no child suspends: the run is "ready" at pc "hop" and goes on
\* from there.  passes (history) counts the calls of runBlocks.
runLoop(w, r) ==
  LET f == Top(w, r)
      block == f.blocks[1]
      t == w.runs[r].tid
      repeat == repeatCount(block.repeat)
  IN CASE f.pc = "entry" ->
            Exec(SetTop(w, r, [f EXCEPT !.n = 0, !.passes = 0, !.pc = "for"]), r)
       [] f.pc = "for" ->
            IF repeat # Infinity /\ f.n >= repeat
              THEN Return([w EXCEPT !.ev.loops =
                             Append(@, [id |-> block.id, repeat |-> block.repeat,
                                        passes |-> f.passes])],
                          r)
            ELSE IF abort(w, t) THEN Return(w, r)
            ELSE Exec(Push(SetTop(w, r,
                             [f EXCEPT !.pc = "next",
                                       !.passes = IF repeat = Infinity THEN 0
                                                  ELSE @ + 1]), r,
                           Frame("runBlocks", "for", block.children)), r)
       [] f.pc = "next" ->
            [SetTop(w, r, [f EXCEPT !.pc = "hop"]) EXCEPT !.runs[r].await = "ready"]
       [] f.pc = "hop" ->
            Exec(SetTop(w, r, [f EXCEPT !.n = IF repeat = Infinity THEN 0
                                              ELSE f.n + 1,
                                        !.pc = "for"]), r)

\* -------------------------------------------------------------- interpreter
Executor(type) ==
  CASE type = "wait" -> "runWait"
    [] type = "waitUntil" -> "runWaitUntil"
    [] type \in {"playSound", "playSoundUntil"} -> "runPlaySound"
    [] type = "notify" -> "runNotify"
    [] type = "notifyUntil" -> "runNotifyUntil"
    [] type = "loop" -> "runLoop"
    [] OTHER -> "none"

\* runBlocks that returns at a block of a kind it does not know.
runBlocksStoppingAtUnknown(w, r) ==
  LET f == Top(w, r)
      t == w.runs[r].tid
      dispatch ==
        LET block == f.blocks[f.i]
            w1 == [updateState(SetTop(w, r, [f EXCEPT !.pc = "next"]),
                               t, block.id, NullMs)
                   EXCEPT !.ev.activated = Append(@, block.id)]
        IN IF Executor(block.type) = "none" THEN Return(w1, r)
           ELSE Exec(Push(w1, r, Frame(Executor(block.type), "entry", <<block>>)), r)
  IN CASE f.pc = "for" ->
            IF f.i > Len(f.blocks) THEN Return(w, r)
            ELSE IF abort(w, t) THEN Return(w, r)
            ELSE IF isPaused(w, t)
              THEN waitWhilePaused(SetTop(w, r, [f EXCEPT !.pc = "resumed"]), r)
              ELSE dispatch
       [] f.pc = "resumed" -> IF abort(w, t) THEN Return(w, r) ELSE dispatch
       [] f.pc = "next" ->
            Exec(SetTop(w, r, [f EXCEPT !.i = f.i + 1, !.pc = "for"]), r)

runBlocksSkipping(w, r) ==
  LET f == Top(w, r)
      t == w.runs[r].tid
      dispatch ==
        LET block == f.blocks[f.i]
            w1 == [updateState(SetTop(w, r, [f EXCEPT !.pc = "next"]),
                               t, block.id, NullMs)
                   EXCEPT !.ev.activated = Append(@, block.id)]
        IN IF Executor(block.type) = "none" THEN Exec(w1, r)
           ELSE Exec(Push(w1, r, Frame(Executor(block.type), "entry", <<block>>)), r)
  IN CASE f.pc = "for" ->
            IF f.i > Len(f.blocks) THEN Return(w, r)
            ELSE IF abort(w, t) THEN Return(w, r)
            ELSE IF isPaused(w, t)
              THEN waitWhilePaused(SetTop(w, r, [f EXCEPT !.pc = "resumed"]), r)
              ELSE dispatch
       [] f.pc = "resumed" -> IF abort(w, t) THEN Return(w, r) ELSE dispatch
       [] f.pc = "next" ->
            Exec(SetTop(w, r, [f EXCEPT !.i = f.i + 2, !.pc = "for"]), r)

runBlocks(w, r) ==
  LET f == Top(w, r)
      t == w.runs[r].tid
      dispatch ==
        LET block == f.blocks[f.i]
            w1 == [updateState(SetTop(w, r, [f EXCEPT !.pc = "next"]),
                               t, block.id, NullMs)
                   EXCEPT !.ev.activated = Append(@, block.id)]
        IN IF Executor(block.type) = "none" THEN Exec(w1, r)
           ELSE Exec(Push(w1, r, Frame(Executor(block.type), "entry", <<block>>)), r)
  IN CASE f.pc = "for" ->
            IF f.i > Len(f.blocks) THEN Return(w, r)
            ELSE IF abort(w, t) THEN Return(w, r)
            ELSE IF isPaused(w, t)
              THEN waitWhilePaused(SetTop(w, r, [f EXCEPT !.pc = "resumed"]), r)
              ELSE dispatch
       [] f.pc = "resumed" -> IF abort(w, t) THEN Return(w, r) ELSE dispatch
       [] f.pc = "next" ->
            Exec(SetTop(w, r, [f EXCEPT !.i = f.i + 1, !.pc = "for"]), r)

\* The finally block of startBlocks: the run is over.
finally(w, r) ==
  LET t == w.runs[r].tid
      w1 == updateState(w, t, NullId, NullMs)
  IN [w1 EXCEPT !.runningMap = Put(@, t, Idle),
                !.runs[r].await = "done", !.runs[r].sleep = 0]

\* Run r continues from where it is, up to its next suspension.
Exec(w, r) ==
  IF w.runs[r].stack = <<>> THEN finally(w, r)
  ELSE LET fn == Top(w, r).fn
       IN CASE fn = "runBlocks" -> runBlocks(w, r)
            [] fn = "runWait" -> runWait(w, r)
            [] fn = "runWaitUntil" -> runWaitUntil(w, r)
            [] fn = "runPlaySound" -> runPlaySound(w, r)
            [] fn = "runNotify" -> runNotify(w, r)
            [] fn = "runNotifyUntil" -> runNotifyUntil(w, r)
            [] fn = "runLoop" -> runLoop(w, r)

startBlocks(w, timer) ==
  IF timer.blocks = <<>> THEN w
  ELSE LET t == timer.id
           w1 == stopBlocks(w, t)
           w2 == getControl(w1, t)
           w3 == [w2 EXCEPT !.controlRefs[t].abort = FALSE,
                            !.controlRefs[t].paused = FALSE]
           w4 == settlePauseWaiters(w3, t)
           w5 == [w4 EXCEPT !.runningMap =
                    Put(@, t, [isRunning |-> TRUE, activeBlockId |-> NullId,
                               remainingMs |-> NullMs])]
           r == Len(w5.runs) + 1
           w6 == [w5 EXCEPT !.runs = Append(@,
                    [tid |-> t, await |-> "running", sleep |-> 0,
                     capSrc |-> w.activeSrc, capSound |-> w.activeSound,
                     aborted |-> FALSE,
                     stack |-> <<Frame("runBlocks", "for", timer.blocks)>>]),
                    !.ev.run = r, !.ev.fresh = TRUE]
       IN Exec(w6, r)

\* --------------------------------------------------------------- stopwatch
\* startedAt: null; a timestamp is a number of ms, never 0 in the model.
NoStart == 0

\* What every reader takes a missing entry for: getStopwatchElapsed returns
\* 0 for it and isRunning false, and the map is not handed out.  The model
\* holds it in the place of a missing entry.
ZeroEntry == [elapsedMs |-> 0, isRunning |-> FALSE, startedAt |-> NoStart]

\* prev[id].
Entry(map, id) == IF id \in DOMAIN map THEN map[id] ELSE ZeroEntry

getStopwatchElapsed(state, clock) ==
  IF state = <<>> THEN 0
  ELSE IF state.isRunning /\ state.startedAt # NoStart
         THEN state.elapsedMs + (clock - state.startedAt)
         ELSE state.elapsedMs

\* startStopwatch that begins at zero whether or not reset is set.
startStopwatchFromZero(w, timer, reset) ==
  [w EXCEPT !.stopwatchMap =
     Put(@, timer.id, [elapsedMs |-> 0, isRunning |-> TRUE,
                       startedAt |-> w.now])]

\* startStopwatch that goes on from the elapsed time whether or not reset is
\* set.
startStopwatchGoingOn(w, timer, reset) ==
  [w EXCEPT !.stopwatchMap =
     Put(@, timer.id,
         [elapsedMs |-> getStopwatchElapsed(Entry(w.stopwatchMap, timer.id),
                                            w.now),
          isRunning |-> TRUE, startedAt |-> w.now])]

\* reset is options?.reset.
startStopwatch(w, timer, reset) ==
  LET current == Entry(w.stopwatchMap, timer.id)
      baseElapsed == IF reset THEN 0 ELSE getStopwatchElapsed(current, w.now)
  IN [w EXCEPT !.stopwatchMap =
        Put(@, timer.id, [elapsedMs |-> baseElapsed, isRunning |-> TRUE,
                          startedAt |-> w.now])]

\* pauseStopwatch that folds the elapsed time in and leaves a running
\* stopwatch running.
pauseStopwatchStillRunning(w, timerId) ==
  LET current == Entry(w.stopwatchMap, timerId)
      elapsed == getStopwatchElapsed(current, w.now)
  IN [w EXCEPT !.stopwatchMap =
        Put(@, timerId, [current EXCEPT !.elapsedMs = elapsed])]

pauseStopwatch(w, timerId) ==
  LET current == Entry(w.stopwatchMap, timerId)
      elapsed == getStopwatchElapsed(current, w.now)
  IN [w EXCEPT !.stopwatchMap =
        Put(@, timerId, [elapsedMs |-> elapsed, isRunning |-> FALSE,
                         startedAt |-> NoStart])]

\* start without the resume branch.
startAlwaysFresh(w, timer) ==
  IF timer.mode = "simpleStopwatch" THEN startStopwatch(w, timer, FALSE)
  ELSE startBlocks(w, timer)

\* No caller passes options to start.
start(w, timer) ==
  IF timer.mode = "simpleStopwatch" THEN startStopwatch(w, timer, FALSE)
  ELSE IF timer.id \in DOMAIN w.controlRefs
            /\ w.controlRefs[timer.id].paused
            /\ ~w.controlRefs[timer.id].abort
         THEN resumeBlocks(w, timer.id)
         ELSE startBlocks(w, timer)

pause(w, timer) ==
  IF timer.mode = "simpleStopwatch" THEN pauseStopwatch(w, timer.id)
  ELSE pauseBlocks(w, timer.id)

restart(w, timer) ==
  IF timer.mode = "simpleStopwatch" THEN startStopwatch(w, timer, TRUE)
  ELSE startBlocks(w, timer)

stop(w, t) == stopBlocks(pauseStopwatch(w, t), t)

\* ------------------------------------------------------------- block tree
NoBlock == <<>>           \* null where a Block is expected

\* id is the value of createId().
createDefaultBlock(type, id) ==
  CASE type = "wait" -> WaitBlock(id, 5, "seconds")
    [] type = "notifyUntil" -> NotifyUntilBlock(id, Ms(DefaultTimeoutMs), <<>>)
    [] OTHER -> LoopBlock(id, 2, <<>>)

RECURSIVE cloneBlock(_)
cloneBlock(block) ==
  IF block.type = "loop"
    THEN [block EXCEPT
            !.children = [k \in 1..Len(@) |-> cloneBlock(block.children[k])]]
    ELSE block

cloneBlocks(blocks) == [k \in 1..Len(blocks) |-> cloneBlock(blocks[k])]

\* deleteBlockTree that never looks below the root.
deleteBlockTreeAtRoot(blocks, id) ==
  SelectSeq(blocks, LAMBDA b : b.id # id)

RECURSIVE deleteBlockTree(_, _)
deleteBlockTree(blocks, id) ==
  IF blocks = <<>> THEN <<>>
  ELSE LET b == Head(blocks)
           rest == deleteBlockTree(Tail(blocks), id)
       IN IF b.id = id THEN rest
          ELSE IF b.type = "loop"
            THEN <<[b EXCEPT !.children = deleteBlockTree(@, id)]>> \o rest
            ELSE <<b>> \o rest

RECURSIVE findBlockById(_, _)
findBlockById(blocks, id) ==
  IF blocks = <<>> THEN NoBlock
  ELSE LET b == Head(blocks)
           found == IF b.type = "loop" THEN findBlockById(b.children, id)
                    ELSE NoBlock
       IN IF b.id = id THEN b
          ELSE IF found # NoBlock THEN found
          ELSE findBlockById(Tail(blocks), id)

\* The for loop of findAndRemove from block k on, with its two locals.
RECURSIVE findAndRemoveFrom(_, _, _, _, _)
findAndRemoveFrom(blocks, id, k, found, without) ==
  IF k > Len(blocks) THEN [found |-> found, without |-> without]
  ELSE LET b == blocks[k]
       IN IF b.id = id
            THEN findAndRemoveFrom(blocks, id, k + 1, b, without)
          ELSE IF b.type = "loop"
            THEN LET result == findAndRemoveFrom(b.children, id, 1, NoBlock,
                                                 <<>>)
                 IN findAndRemoveFrom(
                      blocks, id, k + 1,
                      IF result.found # NoBlock /\ found = NoBlock
                        THEN result.found ELSE found,
                      Append(without,
                             [b EXCEPT !.children = result.without]))
          ELSE findAndRemoveFrom(blocks, id, k + 1, found,
                                 Append(without, b))

\* findAndRemove that finds the block and removes nothing.
findAndRemoveKeeping(blocks, id) ==
  [found |-> findBlockById(blocks, id), without |-> blocks]

findAndRemove(blocks, id) == findAndRemoveFrom(blocks, id, 1, NoBlock, <<>>)

\* blockContainsId that looks at the direct children only.
blockContainsIdShallow(block, id) ==
  /\ block.type = "loop"
  /\ \E k \in 1..Len(block.children) : block.children[k].id = id

RECURSIVE blockContainsId(_, _)
blockContainsId(block, id) ==
  /\ block.type = "loop"
  /\ \E k \in 1..Len(block.children) :
       \/ block.children[k].id = id
       \/ /\ block.children[k].type = "loop"
          /\ blockContainsId(block.children[k], id)

\* insertRelative that puts the new block in front whether or not a block has
\* the target id.
insertRelativeInFront(blocks, targetId, newBlock, position) ==
  <<newBlock>> \o blocks

RECURSIVE insertRelative(_, _, _, _)
insertRelative(blocks, targetId, newBlock, position) ==
  IF blocks = <<>> THEN <<>>
  ELSE LET b == Head(blocks)
           rest == insertRelative(Tail(blocks), targetId, newBlock, position)
       IN IF b.id = targetId
            THEN IF position = "before" THEN <<newBlock, b>> \o rest
                 ELSE IF position = "after" THEN <<b, newBlock>> \o rest
                 ELSE IF position = "inside" /\ b.type = "loop"
                   THEN <<[b EXCEPT !.children = Append(@, newBlock)]>>
                          \o rest
                 ELSE <<b>> \o rest
          ELSE IF b.type = "loop"
            THEN <<[b EXCEPT !.children =
                      insertRelative(@, targetId, newBlock, position)]>>
                   \o rest
          ELSE <<b>> \o rest

moveBlock(blocks, movingId, targetId, position) ==
  IF movingId = targetId THEN blocks
  ELSE LET targetBlock == findBlockById(blocks, targetId)
           removed == findAndRemove(blocks, movingId)
           movingBlock == removed.found
       IN IF targetBlock = NoBlock THEN blocks
          ELSE IF movingBlock = NoBlock THEN blocks
          ELSE IF movingBlock.type = "loop"
                    /\ blockContainsId(movingBlock, targetId)
            THEN blocks
          ELSE insertRelative(removed.without, targetId,
                              cloneBlock(movingBlock), position)

\* A DropDescriptor; targetId and position are "" where the kind has none.
Drop(kind, targetId, position) ==
  [kind |-> kind, targetId |-> targetId, position |-> position]

applyPaletteDrop(blocks, block, drop) ==
  LET safeBlocks == cloneBlocks(blocks)
  IN CASE drop.kind = "root-empty" -> Append(safeBlocks, block)
       [] drop.kind = "root" ->
            IF drop.position = "prepend" THEN <<block>> \o safeBlocks
            ELSE Append(safeBlocks, block)
       [] drop.kind = "block" ->
            insertRelative(safeBlocks, drop.targetId, block, drop.position)
       [] OTHER -> safeBlocks

applyExistingDrop(blocks, blockId, drop) ==
  LET safeBlocks == cloneBlocks(blocks)
      removed == findAndRemove(safeBlocks, blockId)
      clonedMoving == cloneBlock(removed.found)
  IN IF drop.kind = "block"
       THEN moveBlock(safeBlocks, blockId, drop.targetId, drop.position)
     ELSE IF removed.found = NoBlock THEN safeBlocks
     ELSE IF drop.kind = "root-empty" THEN Append(removed.without, clonedMoving)
     ELSE IF drop.kind = "root"
       THEN IF drop.position = "prepend"
              THEN <<clonedMoving>> \o removed.without
              ELSE Append(removed.without, clonedMoving)
     ELSE safeBlocks

\* find of AlarmEditor's moveBlock: the first block with the id, depth first
\* through the loops.
RECURSIVE AlarmEditorFind(_, _)
AlarmEditorFind(list, movingId) ==
  IF list = <<>> THEN NoBlock
  ELSE LET b == Head(list)
           inside == IF b.type = "loop" THEN AlarmEditorFind(b.children, movingId)
                     ELSE NoBlock
       IN IF b.id = movingId THEN b
          ELSE IF inside # NoBlock THEN inside
          ELSE AlarmEditorFind(Tail(list), movingId)

\* moveBlock of AlarmEditor.tsx; its deleteBlockTree and insertRelative are
\* word for word those of blockTree.ts.
AlarmEditorMoveBlock(blocks, movingId, targetId, position) ==
  IF movingId = targetId THEN blocks
  ELSE LET movingBlock == AlarmEditorFind(blocks, movingId)
       IN IF movingBlock = NoBlock THEN blocks
          ELSE insertRelative(deleteBlockTree(blocks, movingId), targetId,
                              movingBlock, position)

\* ------------------------------------------------------------------ actions
\* The handler has run: v is the world it leaves.
Apply(w) ==
  \E v \in {w} :
    /\ controlRefs' = v.controlRefs
    /\ runningMap' = v.runningMap
    /\ runs' = v.runs
    /\ resolveRef' = v.resolveRef
    /\ activeSrc' = v.activeSrc
    /\ activeSound' = v.activeSound
    /\ playing' = v.playing
    /\ now' = v.now
    /\ permission' = v.permission
    /\ notes' = v.notes
    /\ stopwatchMap' = v.stopwatchMap
    /\ ev' = v.ev
    /\ UNCHANGED <<timers, draft, today, useTimers>>

Begin(op, t, r) == [World EXCEPT !.ev = Event(op, t, r)]

Runs == 1..Len(runs)

\* No continuation is pending: the event loop takes its next task.
TaskBoundary == \A r \in Runs : runs[r].await # "ready"

Start(t) ==
  /\ TaskBoundary
  /\ \E w \in {start(Begin("start", t, 0), timers[t])} :
       Len(w.runs) <= MaxRuns /\ Apply(w)

Restart(t) ==
  /\ TaskBoundary
  /\ timers[t].mode = "simpleStopwatch" \/ Len(runs) < MaxRuns
  /\ Apply(restart(Begin("restart", t, 0), timers[t]))

Pause(t) ==
  /\ TaskBoundary
  /\ Apply(pause(Begin("pause", t, 0), timers[t]))

Stop(t) ==
  /\ TaskBoundary
  /\ Apply(stop(Begin("stop", t, 0), t))

\* A run whose promise was resolved continues.
Continue(r) ==
  /\ runs[r].await = "ready"
  /\ Apply(Exec([Begin("continue", runs[r].tid, r)
                   EXCEPT !.runs[r].await = "running"], r))

\* The setTimeout of sleep fires.
TimerFire(r) ==
  /\ TaskBoundary
  /\ runs[r].await = "sleep" /\ runs[r].sleep = 0
  /\ Apply(Exec([Begin("timer", runs[r].tid, r)
                   EXCEPT !.runs[r].await = "running"], r))

TracksTime(f) == f.fn \in {"runWait", "runWaitUntil", "runNotifyUntil"}

\* since is followed as far as it can matter: past the remaining timeout of a
\* NotifyUntil, past MaxSince elsewhere.
SinceCap(f) ==
  IF f.fn = "runNotifyUntil" THEN Max(MaxSince, f.remaining) ELSE MaxSince

\* One quantum passes for the frames of a stack that hold a `last` timestamp.
RECURSIVE TickFrames(_, _, _, _)
TickFrames(stack, k, paused, blocked) ==
  IF k > Len(stack) THEN stack
  ELSE TickFrames(
         IF TracksTime(stack[k])
           THEN [stack EXCEPT
                   ![k].since = Min(@ + Quantum, SinceCap(stack[k])),
                   ![k].pausedSince =
                      IF paused /\ stack[k].fn # "runNotifyUntil"
                        THEN Min(@ + Quantum, MaxSince) ELSE @,
                   ![k].blockedSince =
                      IF blocked /\ stack[k].fn = "runNotifyUntil"
                        THEN Min(@ + Quantum, SinceCap(stack[k])) ELSE @]
           ELSE stack, k + 1, paused, blocked)

RECURSIVE TickRuns(_, _)
TickRuns(rs, r) ==
  IF r > Len(rs) THEN rs
  ELSE TickRuns([rs EXCEPT
                   ![r].sleep = Max(0, @ - Quantum),
                   ![r].stack =
                      TickFrames(@, 1, controlRefs[rs[r].tid].paused,
                                 rs[r].await = "resume")],
                r + 1)

\* Date.now() advances by one quantum; a due timer fires within the quantum.
Tick ==
  /\ TaskBoundary
  /\ \A r \in Runs : ~(runs[r].await = "sleep" /\ runs[r].sleep = 0)
  /\ now # NoClock => now + Quantum <= ClockStart + MaxClockTicks * Quantum
  /\ runs' = TickRuns(runs, 1)
  /\ now' = IF now = NoClock THEN now ELSE now + Quantum
  /\ runs' # runs \/ now' # now
  /\ ev' = Event("tick", "", 0)
  /\ UNCHANGED <<timers, controlRefs, runningMap, resolveRef, activeSrc,
                 activeSound, playing, today, permission, notes,
                 stopwatchMap, draft, useTimers>>

\* The play menu renders a timer that reports no remaining time.
PlayMenu(t) ==
  /\ TaskBoundary
  /\ timers[t].mode # "simpleStopwatch"
  /\ t \in DOMAIN runningMap => runningMap[t].remainingMs = NullMs
  /\ ev' = [Event("PlayMenu", t, 0) EXCEPT
              !.call = getInitialRemainingMs(timers[t].blocks, now, today)]
  /\ UNCHANGED <<timers, controlRefs, runningMap, runs, resolveRef, activeSrc,
                 activeSound, playing, now, today, permission, notes,
                 stopwatchMap, draft, useTimers>>

\* A handler of the app has run on the timers of useTimers: React renders
\* the state it leaves.
Commit(op, h) ==
  /\ h.n <= MaxTimers
  /\ useTimers' = [timers |-> h.timers, db |-> h.db, n |-> h.n]
  /\ ev' = [Event(op, "", 0) EXCEPT !.calls = h.calls]
  /\ UNCHANGED <<timers, controlRefs, runningMap, runs, resolveRef, activeSrc,
                 activeSound, playing, now, today, permission, notes,
                 stopwatchMap, draft>>

StopwatchName == <<"S", "t", "o", "p", "w", "a", "t", "c", "h">>

handleCreateCustomTimer == Commit("handleCreateCustomTimer", createTimer(Rendered))

handleCreateStopwatch ==
  LET h == createTimer(Rendered)
  IN Commit("handleCreateStopwatch",
            updateTimer(h, [h.created EXCEPT !.name = StopwatchName]))

\* The editor saves its draft of the k-th timer under the name typed.
handleSaveTimer(k, name) ==
  Commit("handleSaveTimer",
         updateTimer(Rendered, [useTimers.timers[k] EXCEPT !.name = name]))

\* A lap is logged on the k-th timer.
handleMarkSelected(k) ==
  Commit("handleMarkSelected", updateTimer(Rendered, useTimers.timers[k]))

\* parsed.forEach of handleImportCsv: a timer is created and then named for
\* each row.
RECURSIVE forEach(_, _)
forEach(h, names) ==
  IF names = <<>> THEN h
  ELSE LET h1 == createTimer(h)
       IN forEach(updateTimer(h1, [h1.created EXCEPT !.name = names[1]]),
                  Tail(names))

handleImportCsv(names) == Commit("handleImportCsv", forEach(Rendered, names))

handleDeleteTimer(k) ==
  Commit("handleDeleteTimer", deleteTimer(Rendered, useTimers.timers[k].id))

\* db.timers.toArray(): the rows of the table in the order of their keys.
RECURSIVE toArray(_, _, _)
toArray(db, k, n) ==
  IF k >= n THEN <<>>
  ELSE (IF createId(k) \in DOMAIN db THEN <<db[createId(k)]>> ELSE <<>>)
         \o toArray(db, k + 1, n)

\* The page is loaded again: the effect of useTimers reads the table.
hydrate ==
  Commit("hydrate",
         [Rendered EXCEPT !.timers = toArray(useTimers.db, 0, useTimers.n)])

\* The playback ends or fails to play, or the sound fails to load.
SoundEvent(kind) ==
  /\ TaskBoundary
  /\ playing \/ (kind = "loaderror" /\ ~activeSound)
  /\ Apply(soundHandler(Begin(kind, "", 0)))

\* useSound delivers its first sound object.
SoundLoaded ==
  /\ TaskBoundary
  /\ ~activeSound
  /\ Apply(soundEffect([Begin("loaded", "", 0) EXCEPT !.activeSound = TRUE]))

\* ------------------------------------------------------------ specification
TimerA ==
  Timer("A", <<WaitBlock("a1", 1, "seconds"),
               PlaySoundBlock("a2", "default", "")>>)

TimerB ==
  Timer("B", <<PlaySoundBlock("b1", "custom", CustomUrl),
               WaitBlock("b2", 1, "seconds")>>)

InitOn(ts, clock, day, perm) ==
  /\ timers = ts
  /\ controlRefs = <<>>
  /\ runningMap = <<>>
  /\ runs = <<>>
  /\ resolveRef = NoRun
  /\ activeSrc = DefaultUrl
  /\ activeSound = FALSE
  /\ playing = FALSE
  /\ now = clock
  /\ today = day
  /\ permission = perm
  /\ notes = <<>>
  /\ stopwatchMap = [t \in DOMAIN ts |-> ZeroEntry]
  /\ draft = <<>>
  /\ useTimers = NoTimers
  /\ ev = Event("init", "", 0)

InitAt(ts, clock, perm) == InitOn(ts, clock, DayMs, perm)

InitWith(ts) == InitAt(ts, NoClock, "unavailable")

Init == InitWith([t \in {"A", "B"} |-> IF t = "A" THEN TimerA ELSE TimerB])

Next ==
  \/ \E t \in DOMAIN timers : Start(t)
  \/ \E t \in DOMAIN timers : Restart(t)
  \/ \E t \in DOMAIN timers : Pause(t)
  \/ \E t \in DOMAIN timers : Stop(t)
  \/ \E r \in Runs : Continue(r)
  \/ \E r \in Runs : TimerFire(r)
  \/ Tick
  \/ \E kind \in {"end", "loaderror", "playerror"} : SoundEvent(kind)
  \/ SoundLoaded

Spec == Init /\ [][Next]_vars

\* ------------------------------------- the time utils, as the play menu calls them
\* H:MM of hour h and minute m.
Clock(h, m) == toString(h) \o <<":">> \o padStart(toString(m))

Hours == {1, 2, 3, 7, 11, 12}
Minutes == {0, 15, 59}
Amounts == {NoAmount, -2, -1, 0, 1, 5}
Units == {"seconds", "minutes", "hours", "days", "weeks"}

TimeBlocks ==
  {WaitUntilBlock("w1", Clock(h, m), ampm) :
     h \in Hours, m \in Minutes, ampm \in {"AM", "PM"}}
    \cup {WaitBlock("w1", amount, unit) : amount \in Amounts, unit \in Units}

\* Times of the day, as ms since the local midnight.
Instants ==
  {0, 1, 15 * MinuteMs, 15 * MinuteMs + 1, HourMs, 2 * HourMs - 1, 2 * HourMs,
   3 * HourMs, 7 * HourMs, 12 * HourMs, 13 * HourMs, 14 * HourMs,
   23 * HourMs - 1, DayMs - 1, DayMs + HourMs - 1}

\* A day has 24 hours, or 23 or 25 when the clocks change.
Days == {DayMs - HourMs, DayMs, DayMs + HourMs}

InitTime ==
  \E block \in TimeBlocks : \E clock \in Instants : \E day \in Days :
    /\ clock < day
    /\ InitOn([t \in {"T"} |-> Timer("T", <<block>>)], clock, day,
              "unavailable")

NextTime == \E t \in DOMAIN timers : PlayMenu(t)

SpecTime == InitTime /\ [][NextTime]_vars

\* --------------------------------------------- timers that wait for no time
WaitTimers ==
  {<<WaitBlock("w1", amount, unit), PlaySoundBlock("p1", "default", "")>> :
     amount \in Amounts \ {5}, unit \in {"seconds"}}
    \cup {<<WaitBlock("w1", amount, "days"),
            PlaySoundBlock("p1", "default", "")>> : amount \in {NoAmount, -1}}

InitWait ==
  \E blocks \in WaitTimers : InitWith([t \in {"T"} |-> Timer("T", blocks)])

NextWait == Next \/ \E t \in DOMAIN timers : PlayMenu(t)

SpecWait == InitWait /\ [][NextWait]_vars

\* ------------------------------------------------------- the list of timers
\* Names typed in the editor or read from a CSV file.
Names ==
  {<<"a">>, <<"A">>, <<" ", "a", " ">>, <<" ">>, <<"a", "2">>}

Rows == UNION {[1..n -> {<<"a">>, <<"A">>}] : n \in 1..MaxRows}

InitNames == InitWith(<<>>)

NextNames ==
  \/ handleCreateCustomTimer
  \/ handleCreateStopwatch
  \/ \E k \in DOMAIN useTimers.timers : \E name \in Names :
       handleSaveTimer(k, name)
  \/ \E k \in DOMAIN useTimers.timers : handleMarkSelected(k)
  \/ \E names \in Rows : handleImportCsv(names)
  \/ \E k \in DOMAIN useTimers.timers : handleDeleteTimer(k)
  \/ hydrate

SpecNames == InitNames /\ [][NextNames]_vars

\* ------------------------------------------------- trees: loops, unknown kinds
Sound(id) == PlaySoundBlock(id, "default", "")

TreeTimers ==
  { <<LoopBlock("l1", 2, <<WaitBlock("c1", 1, "seconds")>>),
      Block("u1", "vibrate"), Sound("p1")>>,
    <<LoopBlock("l1", 0, <<Sound("c1")>>), Block("u1", "vibrate")>>,
    <<LoopBlock("l1", -3, <<Sound("c1")>>), Sound("p1")>>,
    <<LoopBlock("l1", 2, <<LoopBlock("l2", 3, <<Sound("c1")>>)>>)>>,
    <<LoopBlock("l1", -1, <<WaitBlock("c1", 1, "seconds")>>), Sound("p1")>>,
    <<Sound("p0"),
      LoopBlock("l1", 1, <<LoopBlock("l2", -1, <<Sound("c1")>>), Sound("c2")>>),
      Sound("p1")>>,
    <<LoopBlock("l1", -1, <<>>), Sound("p1")>>,
    <<LoopBlock("l1", -1, <<WaitBlock("c1", 0, "seconds"),
                            Block("u1", "vibrate")>>)>> }

InitTree == \E blocks \in TreeTimers : InitWith([t \in {"L"} |-> Timer("L", blocks)])

SpecTree == InitTree /\ [][Next]_vars

\* ------------------------------------------------------------------- claims
RunOps == {"continue", "timer"}

RunsOf(t) == {r \in Runs : runs[r].tid = t}

Newest(t) == CHOOSE r \in RunsOf(t) : \A q \in RunsOf(t) : q <= r

Live(r) == runs[r].await # "done"

FirstId(t) == timers[t].blocks[1].id

\* The position of a run: the step each level of its tree is at, and the
\* remaining time its executors hold.
Position(run) ==
  [k \in DOMAIN run.stack |->
     [fn |-> run.stack[k].fn, i |-> run.stack[k].i,
      n |-> run.stack[k].n, remaining |-> run.stack[k].remaining]]

\* C1: once a newer run of a timer has been started, an older run of the same
\* timer never activates a step, reports progress or requests a sound.
C1_OnlyNewestRunActs ==
  (ev.op \in RunOps /\ (ev.activated # <<>> \/ ev.reported \/ ev.sound))
    => ev.run = Newest(ev.tid)

\* C2: after stop(id), with no later start or restart (abort is still set), no
\* run of id activates a step, none is blocked in waitWhilePaused, each one is
\* on its way out (ready, or asleep until its timer fires) and is over after its
\* next step, and the reported state is idle with the pause flag cleared.
C2_StopWindsTheRunDown ==
  \A t \in DOMAIN controlRefs :
    controlRefs[t].abort =>
      /\ ~controlRefs[t].paused
      /\ controlRefs[t].resumeResolvers = <<>>
      /\ \A r \in RunsOf(t) : runs[r].await \in {"ready", "sleep", "done"}
      /\ runningMap[t] = Idle
      /\ (ev.op \in RunOps /\ ev.tid = t)
           => (ev.activated = <<>> /\ runs[ev.run].await = "done")

\* C3: restart clears the pause flag and begins a fresh run whose first active
\* step is steps[0], and a run that was in flight at a restart never activates
\* another step.
C3_RestartDiscardsTheOldRun ==
  /\ ev.op = "restart" =>
       /\ ~controlRefs[ev.tid].paused
       /\ ev.fresh /\ ev.run = Len(runs)
       /\ ev.activated # <<>> /\ ev.activated[1] = FirstId(ev.tid)
  /\ (ev.op \in RunOps /\ ev.activated # <<>>) => ~runs[ev.run].aborted

\* C5: start on a timer that has no live run begins a fresh run at the first
\* step.
C5_StartWithoutLiveRunBeginsFresh ==
  (ev.op = "start" /\ \A r \in RunsOf(ev.tid) \ {ev.run} : ~Live(r))
    => (ev.fresh /\ ev.activated # <<>> /\ ev.activated[1] = FirstId(ev.tid))

\* C9: a run waiting for its sound holds the one stored resolve, so the wait of
\* a caller is never lost to a later play request.
C9_NoSoundWaitIsLost ==
  \A r \in Runs : runs[r].await = "sound" => resolveRef = r

UserOps == {"start", "pause", "restart", "stop"}

SameEntry(f, g, k) ==
  /\ (k \in DOMAIN f) = (k \in DOMAIN g)
  /\ k \in DOMAIN f => f[k] = g[k]

\* C8: start, pause, restart and stop of timer a leave every other timer b as
\* it was: b's abort and pause flags and waiters, b's reported state, and all
\* of b's runs, among them a run that awaits its sound.
C8_OtherTimersUnaffected ==
  [][\A a \in DOMAIN timers : \A b \in DOMAIN timers \ {a} :
       (ev'.op \in UserOps /\ ev'.tid = a) =>
         /\ SameEntry(controlRefs, controlRefs', b)
         /\ SameEntry(runningMap, runningMap', b)
         /\ \A r \in RunsOf(b) : runs'[r] = runs[r]]_vars

\* C10: a run that reaches the end without abort leaves the reported state
\* idle and was never aborted; once a run of the timer is over and the state is
\* idle, it stays idle until the next start or restart of that timer.
C10_CompletionLeavesTheTimerIdle ==
  [][\A t \in DOMAIN timers :
       /\ \A r \in RunsOf(t) :
            (Live(r) /\ runs'[r].await = "done" /\ ~controlRefs'[t].abort)
              => (runningMap'[t] = Idle /\ ~runs'[r].aborted)
       /\ ( /\ t \in DOMAIN runningMap /\ runningMap[t] = Idle
            /\ \E r \in RunsOf(t) : ~Live(r)
            /\ ~(ev'.op \in {"start", "restart"} /\ ev'.tid = t) )
            => runningMap'[t] = Idle]_vars

Reported(t) ==
  [activeBlockId |-> runningMap[t].activeBlockId,
   remainingMs |-> runningMap[t].remainingMs]

\* The blocks of the root sequence that a run may still activate: those
\* after the one it is at, and that one too until it has been activated.
Ahead(run) ==
  LET f == run.stack[1]
  IN {f.blocks[j].id :
        j \in (IF f.pc = "next" THEN f.i + 1 ELSE f.i)..Len(f.blocks)}

\* C4: start on a timer that is paused and not aborted creates no run and
\* clears the pause flag; every run of the timer keeps its step and its
\* remaining time, the blocked ones are released, the reported step and
\* remaining time stay; and a run only ever activates steps ahead of where it
\* is, never one before.
C4_StartWhilePausedResumesInPlace ==
  [][/\ \A t \in DOMAIN timers :
          ( /\ ev'.op = "start" /\ ev'.tid = t
            /\ t \in DOMAIN controlRefs
            /\ controlRefs[t].paused /\ ~controlRefs[t].abort )
          => /\ Len(runs') = Len(runs)
             /\ ~ev'.fresh /\ ev'.activated = <<>>
             /\ ~controlRefs'[t].paused /\ ~controlRefs'[t].abort
             /\ controlRefs'[t].resumeResolvers = <<>>
             /\ Reported(t)' = Reported(t)
             /\ \A r \in RunsOf(t) :
                  /\ Position(runs'[r]) = Position(runs[r])
                  /\ runs'[r].await =
                       IF runs[r].await = "resume" THEN "ready"
                       ELSE runs[r].await
     /\ \A r \in Runs :
          (ev'.op \in RunOps /\ ev'.run = r) =>
             \A k \in DOMAIN ev'.activated : ev'.activated[k] \in Ahead(runs[r])
    ]_vars

C4_Witness ==
  /\ ev.op = "start" /\ ~ev.fresh
  /\ \E r \in RunsOf(ev.tid) :
       /\ runs[r].await = "ready"
       /\ runs[r].stack[1].i > 1

\* C6: pause leaves the reported step and remaining time and the position
\* of every run of the timer as they were; and in every step that leaves a run
\* blocked in waitWhilePaused (the step in which it observes the pause, and
\* every step until start, restart or stop releases it) the position of the
\* run and the reported step and remaining time of its timer do not change
\* and no step of the timer becomes active.
C6_PausedPositionIsFrozen ==
  [][/\ \A t \in DOMAIN runningMap :
          (ev'.op = "pause" /\ ev'.tid = t)
          => /\ Reported(t)' = Reported(t)
             /\ \A r \in RunsOf(t) : Position(runs'[r]) = Position(runs[r])
     /\ \A r \in Runs :
          runs'[r].await = "resume"
          => /\ Position(runs'[r]) = Position(runs[r])
             /\ Reported(runs[r].tid)' = Reported(runs[r].tid)
             /\ ev'.tid = runs[r].tid => ev'.activated = <<>>
    ]_vars

C6_Witness ==
  /\ ev.op = "tick"
  /\ \E r \in Runs :
       /\ runs[r].await = "resume"
       /\ Top(World, r).fn = "runWait"
       /\ Top(World, r).since = MaxSince
       /\ Top(World, r).remaining < unitToMs(1, "seconds")
       /\ runningMap[runs[r].tid].remainingMs = Ms(Top(World, r).remaining)

\* A run continues in runWait after waitWhilePaused, released by a resume
\* (the timer is neither aborted nor paused).
ResumesInWait(r) ==
  /\ runs[r].await = "ready"
  /\ runs[r].stack # <<>>
  /\ Top(World, r).fn = "runWait" /\ Top(World, r).pc = "resumed"
  /\ ~controlRefs[runs[r].tid].abort /\ ~controlRefs[runs[r].tid].paused

\* C7: no time that passed while the timer was paused is ever subtracted
\* from the remaining counter of a Wait step, for any pause of any length; and the remaining time right after resume equals the remaining time
\* the step had when it observed the pause.
C7_PausedTimeIsNeverCounted ==
  [][/\ ev'.op \in RunOps => ev'.counted = 0
     /\ \A r \in Runs :
          (ResumesInWait(r) /\ ev'.op = "continue" /\ ev'.run = r)
          => Top(World, r)'.remaining = Top(World, r).remaining
    ]_vars

\* What does hold of a pause in a Wait step: a step that observes the pause
\* when its sleep slice ends keeps its remaining time.  Observing the pause
\* and staying blocked leave the counter as it is, and right after resume the
\* counter and the reported remaining time equal that value and the step
\* sleeps its next slice, so it neither completes at once nor starts over.
ObservedPauseKeepsRemaining ==
  [][\A r \in Runs :
       /\ (runs'[r].await = "resume" /\ Top(World, r).fn = "runWait")
            => Top(World, r)'.remaining = Top(World, r).remaining
       /\ (ResumesInWait(r) /\ ev'.op = "continue" /\ ev'.run = r)
            => /\ Top(World, r)'.remaining = Top(World, r).remaining
               /\ Top(World, r)'.remaining > 0
               /\ runs'[r].await = "sleep"
               /\ runs'[r].sleep = Min(SleepSliceMs, Top(World, r).remaining)
               /\ runningMap'[runs[r].tid].remainingMs
                    = Ms(Top(World, r).remaining)
               /\ ev'.counted = 0
    ]_vars

ObservedPauseWitness ==
  /\ ev.op = "continue" /\ ev.pausedMs = MaxSince /\ ev.reported
  /\ runs[ev.run].await = "sleep"
  /\ Top(World, ev.run).fn = "runWait"
  /\ Top(World, ev.run).remaining \in {SleepSliceMs, 3 * SleepSliceMs}

\* C16: once the playback of a run's sound has started, pause of its timer
\* does not interrupt it: the playback goes on and the run keeps awaiting it.
C16_PauseDoesNotInterruptSound ==
  [][\A r \in Runs :
       ( /\ ev'.op = "pause" /\ ev'.tid = runs[r].tid
         /\ runs[r].await = "sound" /\ resolveRef = r /\ playing )
       => (runs'[r].await = "sound" /\ playing')]_vars


\* ------------------------------------------------ timers that wait for a time
Chars(k) ==
  CASE k = 1 -> <<"7", ":", "0", "0">>
    [] k = 2 -> <<>>
    [] k = 3 -> <<"6", ":", "5", "9">>
    [] k = 4 -> <<"7", ":", "x", "x">>
    [] OTHER -> <<"a", "b", ":", "3", "0">>

UntilTimers ==
  {<<WaitUntilBlock("w1", Chars(1), "AM"), Sound("p1")>>,
   <<WaitUntilBlock("w1", Chars(1), "PM")>>}
    \cup {<<WaitUntilBlock("w1", Chars(k), "AM")>> : k \in 2..5}

InitUntil ==
  \E blocks \in UntilTimers :
    InitAt([t \in {"U"} |-> Timer("U", blocks)], ClockStart, "unavailable")

SpecUntil == InitUntil /\ [][Next]_vars


\* ------------------------------------------------------ timers that notify
\* The user answers the permission prompt of run r, or closes it ("default"),
\* or requestPermission fails.
PermissionAnswer(r, answer) ==
  /\ TaskBoundary
  /\ runs[r].await = "permission"
  /\ permission # "default" => answer = permission
  /\ LET w == [Begin("permission", runs[r].tid, r)
                 EXCEPT !.permission = IF answer \in {"granted", "denied"}
                                         THEN answer ELSE @,
                        !.runs[r].await = "running"]
         f == Top(w, r)
     IN Apply(Exec(SetTop(w, r, [f EXCEPT !.perm = IF answer = "reject"
                                                    THEN "denied" ELSE answer]),
                   r))

\* onclick / onclose of notification k: userDismissed of the runNotifyUntil
\* call that made it, if that call is still there, and stopAudio.
Dismiss(k, kind) ==
  /\ TaskBoundary
  /\ notes[k].handlers /\ notes[k].open
  /\ LET n == notes[k]
         w == [Begin(kind, runs[n.run].tid, n.run)
                 EXCEPT !.notes[k].open = (kind = "click")]
         there == /\ n.depth <= Len(runs[n.run].stack)
                  /\ runs[n.run].stack[n.depth].fn = "runNotifyUntil"
                  /\ runs[n.run].stack[n.depth].note = k
     IN Apply(stopAudio(IF there
                          THEN [w EXCEPT !.runs[n.run].stack[n.depth]
                                            .userDismissed = TRUE]
                          ELSE w))

\* Trees with their Notification.permission at the start.
NotifyCases ==
  {[blocks |-> <<NotifyBlock("n1"), Sound("p1")>>, permission |-> perm] :
     perm \in {"unavailable", "default", "granted", "denied"}}
  \cup
  {[blocks |-> <<NotifyUntilBlock("u1", Ms(500), <<>>), Sound("p1")>>,
    permission |-> perm] : perm \in {"default", "granted"}}
  \cup
  {[blocks |-> <<NotifyUntilBlock("u1", Ms(0),
                                  <<WaitBlock("c1", 1, "seconds")>>),
                 Sound("p1")>>,
    permission |-> "granted"],
   [blocks |-> <<NotifyUntilBlock("u1", Ms(500),
                                  <<WaitBlock("c1", 1, "seconds")>>)>>,
    permission |-> "denied"],
   [blocks |-> <<NotifyUntilBlock("u1", Ms(500), <<Sound("c1")>>)>>,
    permission |-> "granted"]}

InitNotify ==
  \E case \in NotifyCases :
    InitAt([t \in {"N"} |-> Timer("N", case.blocks)], NoClock, case.permission)

NextNotify ==
  \/ Next
  \/ \E r \in Runs :
       \E answer \in {"granted", "denied", "default", "reject"} :
         PermissionAnswer(r, answer)
  \/ \E k \in DOMAIN notes : \E kind \in {"click", "close"} : Dismiss(k, kind)

SpecNotify == InitNotify /\ [][NextNotify]_vars

\* ----------------------------------------------------------- the stopwatch
\* A stopwatch and an alarm timer under the same runner, with the clock
\* running; stop is also called with an id of no timer.
NoTimer == "Z"

WatchTimers ==
  [t \in {"W", "A"} |->
     IF t = "W" THEN Stopwatch("W")
     ELSE Timer("A", <<WaitBlock("a1", 1, "seconds")>>)]

\* The clock is followed for WatchTicks quanta.
WatchStart == ClockStart + (MaxClockTicks - WatchTicks) * Quantum

InitWatch == InitAt(WatchTimers, WatchStart, "unavailable")

\* No step of these timers plays a sound.
NextWatch ==
  \/ \E t \in DOMAIN timers : Start(t) \/ Restart(t) \/ Pause(t)
  \/ \E t \in DOMAIN timers \cup {NoTimer} : Stop(t)
  \/ \E r \in Runs : Continue(r) \/ TimerFire(r)
  \/ Tick

SpecWatch == InitWatch /\ [][NextWatch]_vars

\* ------------------------------------------------------------- the editor
\* The tree algebra of the timer editor applied to a draft: the draft starts
\* as one of Drafts, and the handlers of the editor replace it.
Leaf(id) == WaitBlock(id, 1, "seconds")

Drafts ==
  { <<>>,
    <<Leaf("w1"),
      LoopBlock("L1", 2, <<Leaf("w2"), LoopBlock("L2", 2, <<Leaf("w3")>>)>>),
      NotifyUntilBlock("N1", Ms(1000), <<Leaf("w4")>>)>>,
    <<LoopBlock("L1", 2,
        <<NotifyUntilBlock("N1", Ms(1000),
            <<Leaf("w4"), LoopBlock("L2", 2, <<Leaf("w3")>>)>>)>>),
      Leaf("w1")>> }

Unknown == "zz"           \* an id no block has
EditIds == {"w1", "w2", "w3", "w4", "L1", "L2", "N1", Unknown}
NewId == "s1"             \* the id createId() gives the dropped block
Positions == {"before", "after", "inside"}

Drops ==
  {Drop("root-empty", "", ""), Drop("root", "", "prepend"),
   Drop("root", "", "append")}
    \cup {Drop("block", t, p) : t \in EditIds, p \in Positions}

\* The ids of the blocks of a tree, through the children of every block.
RECURSIVE AllIds(_)
AllIds(blocks) ==
  UNION {{blocks[k].id} \cup AllIds(blocks[k].children) : k \in DOMAIN blocks}

Edit(op, id, targetId, position, block) ==
  [Event(op, "", 0) EXCEPT
     !.edits = ev.edits + 1,
     !.edit = [before |-> draft, id |-> id, targetId |-> targetId,
               position |-> position, block |-> block]]

Edited(blocks, e) ==
  /\ ev.edits < MaxEdits
  /\ draft' = blocks
  /\ ev' = e
  /\ UNCHANGED <<timers, controlRefs, runningMap, runs, resolveRef, activeSrc,
                 activeSound, playing, now, today, permission, notes,
                 stopwatchMap, useTimers>>

\* del of the timer editor.
Del(id) ==
  Edited(deleteBlockTree(draft, id), Edit("del", id, "", "", NoBlock))

\* handleDragEnd for a block of the draft dropped on the delete zone.
DragEndDelete(blockId) ==
  Edited(deleteBlockTree(draft, blockId),
         Edit("deleteZone", blockId, "", "", NoBlock))

\* handleDragEnd for a block dragged from the palette.
DragEndPalette(blockType, drop) ==
  /\ NewId \notin AllIds(draft)
  /\ LET block == createDefaultBlock(blockType, NewId)
     IN Edited(applyPaletteDrop(draft, block, drop),
               Edit("palette", NewId, drop.targetId, drop.position, block))

\* handleDragEnd for a block of the draft.
DragEndExisting(blockId, drop) ==
  Edited(applyExistingDrop(draft, blockId, drop),
         Edit(drop.kind, blockId, drop.targetId, drop.position, NoBlock))

\* handleDropOnBlock of AlarmEditor: the payload is a block type of the
\* palette or a block of the draft.
handleDropOnBlock(kind, blockType, blockId, targetId, pos) ==
  IF kind = "palette"
    THEN /\ NewId \notin AllIds(draft)
         /\ LET block == createDefaultBlock(blockType, NewId)
            IN Edited(insertRelative(draft, targetId, block, pos),
                      Edit("alarmEditorPalette", NewId, targetId, pos, block))
    ELSE Edited(AlarmEditorMoveBlock(draft, blockId, targetId, pos),
                Edit("alarmEditor", blockId, targetId, pos, NoBlock))

InitEdit ==
  /\ draft \in Drafts
  /\ timers = <<>>
  /\ controlRefs = <<>>
  /\ runningMap = <<>>
  /\ runs = <<>>
  /\ resolveRef = NoRun
  /\ activeSrc = DefaultUrl
  /\ activeSound = FALSE
  /\ playing = FALSE
  /\ now = NoClock
  /\ today = DayMs
  /\ permission = "unavailable"
  /\ notes = <<>>
  /\ stopwatchMap = <<>>
  /\ useTimers = NoTimers
  /\ ev = Event("init", "", 0)

NextEdit ==
  \/ \E id \in EditIds : Del(id)
  \/ \E blockType \in {"wait", "loop", "notifyUntil"} :
       \E drop \in Drops : DragEndPalette(blockType, drop)
  \/ \E blockId \in EditIds : \E drop \in Drops :
       DragEndExisting(blockId, drop)
  \/ \E blockId \in EditIds : DragEndDelete(blockId)
  \/ \E blockType \in {"wait", "loop"} : \E targetId \in EditIds :
       \E pos \in Positions :
         handleDropOnBlock("palette", blockType, "", targetId, pos)
  \/ \E blockId \in EditIds : \E targetId \in EditIds :
       \E pos \in Positions :
         handleDropOnBlock("existing", "", blockId, targetId, pos)

SpecEdit == InitEdit /\ [][NextEdit]_vars

\* --------------------------------------------------------- claims on trees
Containers == {"loop", "notifyUntil"}

\* A sequence that never runs to its end: it holds an endless loop, or a
\* container whose children never run to their end.
RECURSIVE Endless(_)
Endless(blocks) ==
  \E k \in DOMAIN blocks :
    /\ blocks[k].type \in Containers
    /\ \/ (blocks[k].type = "loop" /\ blocks[k].repeat = -1)
       \/ Endless(blocks[k].children)

RECURSIVE Ids(_)
Ids(blocks) ==
  UNION {{blocks[k].id} \cup Ids(blocks[k].children) : k \in DOMAIN blocks}

\* The steps that come after a step that never ends.
RECURSIVE Beyond(_)
Beyond(blocks) ==
  UNION { Beyond(blocks[k].children)
            \cup (IF Endless(<<blocks[k]>>)
                    THEN Ids(SubSeq(blocks, k + 1, Len(blocks))) ELSE {})
          : k \in DOMAIN blocks }

\* Every sequence of a tree: the root and the children of every container.
RECURSIVE SequencesOf(_)
SequencesOf(blocks) ==
  {blocks} \cup UNION {SequencesOf(blocks[k].children) : k \in DOMAIN blocks}

KnownKinds ==
  {"loop", "wait", "waitUntil", "playSound", "playSoundUntil", "notify",
   "notifyUntil"}

\* C11: a Loop left by a run that did not find abort set has run its child
\* sequence exactly repeat times for a positive repeat, and exactly once for
\* 0 and for a negative repeat other than -1, pauses or not.
C11_LoopRunsItsChildrenRepeatTimes ==
  \A k \in DOMAIN ev.loops :
    /\ ev.loops[k].repeat # -1
    /\ ev.loops[k].passes =
         IF ev.loops[k].repeat > 0 THEN ev.loops[k].repeat ELSE 1

C11_Witness ==
  /\ ev.op = "continue"
  /\ \E k \in DOMAIN ev.loops :
       ev.loops[k].repeat = 2 /\ ev.loops[k].passes = 2
  /\ \E r \in Runs : r # ev.run /\ runs[r].aborted

\* C12: in a tree with an endless loop no step after that loop is ever
\* activated, and a run of it is over only after abort was set while it ran.
C12_EndlessLoopNeverCompletes ==
  \A t \in DOMAIN timers :
    /\ ev.tid = t =>
         \A k \in DOMAIN ev.activated :
           ev.activated[k] \notin Beyond(timers[t].blocks)
    /\ Endless(timers[t].blocks) =>
         \A r \in RunsOf(t) : runs[r].await = "done" => runs[r].aborted

C12_Witness ==
  /\ Endless(timers["L"].blocks)
  /\ ev.op = "continue" /\ ev.activated # <<>> /\ ev.activated[1] = "c1"
  /\ \E r \in Runs : runs[r].await = "done"

\* Run r is ready and its continuation leaves it ready in the same place, with
\* the flags and the reported state as they are: microtasks follow each other
\* without end and no task (a stop, a timer) is ever taken again.
Spins(r) ==
  /\ runs[r].await = "ready"
  /\ LET w == Exec([World EXCEPT !.runs[r].await = "running"], r)
     IN w.runs = runs /\ w.controlRefs = controlRefs
        /\ w.runningMap = runningMap

\* C13: an endless loop is always cancellable: whatever its children, the
\* run does not keep the event loop to itself, so that stop can set abort, and
\* once abort is set the run starts no further step and is over when it next
\* continues.
C13_EndlessLoopIsCancellable ==
  /\ \A r \in Runs : ~Spins(r)
  /\ \A t \in DOMAIN controlRefs :
       (controlRefs[t].abort /\ ev.op \in RunOps /\ ev.tid = t)
         => (ev.activated = <<>> /\ runs[ev.run].await = "done")

\* C19: a step of an unknown kind is a no-op leaf: the step that follows
\* it in its sequence is activated right after it, and no run rests at it (a
\* run rests in runBlocks only when it waits for resume before a step).
C19_UnknownKindIsSkipped ==
  /\ \A t \in DOMAIN timers : \A blocks \in SequencesOf(timers[t].blocks) :
       \A j \in DOMAIN blocks :
         (blocks[j].type \notin KnownKinds /\ ev.tid = t /\ j < Len(blocks))
         => \A k \in DOMAIN ev.activated :
              ev.activated[k] = blocks[j].id
              => (k < Len(ev.activated)
                  /\ ev.activated[k + 1] = blocks[j + 1].id)
  /\ \A r \in Runs :
       (Live(r) /\ Top(World, r).fn = "runBlocks")
         => (runs[r].await = "resume" /\ Top(World, r).pc = "resumed")

C19_Witness ==
  /\ ev.op = "continue"
  /\ \E k \in DOMAIN ev.activated :
       /\ ev.activated[k] = "u1"
       /\ k < Len(ev.activated) /\ ev.activated[k + 1] = "p1"
  /\ runs[ev.run].await = "sound"

\* ------------------------------------------------- claims on waiting for a time
Frames(r) == {runs[r].stack[k] : k \in DOMAIN runs[r].stack}

\* C17: a WaitUntil step calls msUntilTime once, in the handler that
\* activates the step; from then on, through every pause and resume, its
\* remaining time only counts down from that total.
C17_WaitUntilResolvesTheTimeOnce ==
  /\ Len(ev.until) <= Len(ev.activated)
  /\ \A k \in DOMAIN ev.until :
       \E j \in DOMAIN ev.activated : ev.activated[j] = ev.until[k].id
  /\ \A r \in Runs : \A f \in Frames(r) :
       (f.fn = "runWaitUntil" /\ f.pc # "entry")
         => (f.calls = 1 /\ (~f.nan => f.remaining <= f.total))

C17_Witness ==
  /\ ev.op = "continue" /\ ev.pausedMs > 0
  /\ runs[ev.run].await = "sleep"
  /\ Top(World, ev.run).fn = "runWaitUntil"
  /\ Top(World, ev.run).calls = 1
  /\ Top(World, ev.run).remaining < Top(World, ev.run).total

\* C18: msUntilTime is only ever called with a time of the form H:MM, hour
\* 1..12 and minute 0..59 (as sanitizeTimeInput leaves it), and the wait it
\* returns is a number, positive and at most a day: the step ends.
C18_MalformedTimeIsSanitized ==
  \A k \in DOMAIN ev.until :
    /\ sanitizeTimeInput(ev.until[k].time, <<>>) # <<>>
    /\ ~ev.until[k].ms.nan
    /\ ev.until[k].ms.val > 0 /\ ev.until[k].ms.val <= DayMs

\* ------------------------------------------------------ claims on notifying
DismissOps == {"click", "close"}

\* C14: a NotifyUntil starts an activity cycle only with a remaining
\* timeout above 0 and no dismissal (none at all for a timeoutMs of 0), is not
\* kept going once the timeout is used up, has exited when its run comes back
\* to it after a dismissal, and exits only for one of these or for abort.
C14_NotifyUntilStopsAtTimeoutOrDismissal ==
  /\ \A k \in DOMAIN ev.cycles :
       ev.cycles[k].remaining > 0 /\ ~ev.cycles[k].dismissed
  /\ \A k \in DOMAIN ev.exits :
       \/ ev.exits[k].remaining <= 0
       \/ ev.exits[k].dismissed
       \/ ev.exits[k].aborted
  /\ \A r \in Runs : \A f \in Frames(r) :
       (f.fn = "runNotifyUntil" /\ f.pc \in {"while", "resumed", "after"})
         => f.remaining > 0
  /\ \A r \in Runs :
       ( /\ ev.run = r /\ ev.op \notin DismissOps
         /\ runs[r].await # "done"
         /\ Top(World, r).fn = "runNotifyUntil"
         /\ Top(World, r).pc \in {"while", "resumed", "after"} )
       => ~Top(World, r).userDismissed

C14_Witness ==
  /\ ev.op \in {"sound", "end", "continue", "timer"}
  /\ \E k \in DOMAIN ev.exits :
       /\ ev.exits[k].dismissed /\ ~ev.exits[k].aborted
       /\ ev.exits[k].remaining > 0

\* C15: the time a run spends suspended for a pause is never part of
\* what a NotifyUntil subtracts from its remaining timeout, whether the run is
\* suspended at the top of the NotifyUntil loop or inside a child step.
C15_PausedTimeIsNotTakenFromTheTimeout ==
  ev.blockedCounted = 0

\* Lemma: it is so when the pause is observed at the top of the loop.
PauseAtTheTopIsNotCounted ==
  \A t \in DOMAIN timers :
    (ev.tid = t /\ timers[t].blocks[1].children = <<>>)
      => ev.blockedCounted = 0

\* C20: when the sound fails to load or to play, every run that waits
\* for a sound goes on; a Notify step without a granted permission shows
\* nothing, and the step after it is activated in the same handler (or the
\* run is over).
C20_ResourceFailuresAreBenign ==
  [][ /\ ev'.op \in {"loaderror", "playerror"}
        => \A r \in Runs :
             (runs[r].await = "sound" /\ ~runs[r].aborted)
               => runs'[r].await = "ready"
      /\ \A t \in DOMAIN timers : \A j \in DOMAIN timers[t].blocks :
           \A k \in DOMAIN ev'.activated :
             ( /\ ev'.tid = t /\ timers[t].blocks[j].type = "notify"
               /\ ev'.activated[k] = timers[t].blocks[j].id
               /\ permission' \in {"denied", "unavailable"} )
             => /\ ev'.notified = <<>>
                /\ IF j < Len(timers[t].blocks)
                     THEN /\ k < Len(ev'.activated)
                          /\ ev'.activated[k + 1] = timers[t].blocks[j + 1].id
                     ELSE runs'[ev'.run].await = "done" ]_vars

\* Lemma: the Notify part of C20, on timers that notify.
NotifyWithoutPermissionGoesOn ==
  \A t \in DOMAIN timers : \A j \in DOMAIN timers[t].blocks :
    \A k \in DOMAIN ev.activated :
      ( /\ ev.tid = t /\ timers[t].blocks[j].type = "notify"
        /\ ev.activated[k] = timers[t].blocks[j].id
        /\ permission \in {"denied", "unavailable"} )
      => /\ ev.notified = <<>> /\ notes = <<>>
         /\ k < Len(ev.activated)
         /\ ev.activated[k + 1] = timers[t].blocks[j + 1].id

NotifyWithoutPermissionWitness ==
  /\ permission = "denied" /\ ev.op = "permission"
  /\ ev.activated = <<"p1">> /\ notes = <<>>

\* ------------------------------------------------- claims on the tree algebra
\* The number of steps of a tree, counted through every container.
RECURSIVE countSteps(_)
countSteps(blocks) ==
  IF blocks = <<>> THEN 0
  ELSE 1 + countSteps(Head(blocks).children) + countSteps(Tail(blocks))

UniqueIds(blocks) == countSteps(blocks) = Cardinality(AllIds(blocks))

\* The step with the id, looked for through every container.
RECURSIVE Find(_, _)
Find(blocks, id) ==
  IF blocks = <<>> THEN NoBlock
  ELSE IF Head(blocks).id = id THEN Head(blocks)
  ELSE IF Find(Head(blocks).children, id) # NoBlock
    THEN Find(Head(blocks).children, id)
  ELSE Find(Tail(blocks), id)

\* The tree without the steps with the id, removed through every container.
RECURSIVE Without(_, _)
Without(blocks, id) ==
  IF blocks = <<>> THEN <<>>
  ELSE IF Head(blocks).id = id THEN Without(Tail(blocks), id)
  ELSE <<[Head(blocks) EXCEPT !.children = Without(@, id)]>>
         \o Without(Tail(blocks), id)

\* The last handler was a move of the timer editor (moveBlock of blockTree.ts).
Moved == ev.op = "block"

\* The last handler dropped a new step relative to a block (insertRelative).
Inserted ==
  ev.op \in {"palette", "alarmEditorPalette"} /\ ev.edit.position \in Positions

\* C22: for a tree with unique ids and an id X that occurs anywhere in it (at
\* the root, among the children of a Loop or of a NotifyUntil, at any depth),
\* after deleting X no step with id X remains and findBlockById gives null.
C22_DeleteRemovesTheStep ==
  (/\ ev.op \in {"del", "deleteZone"}
   /\ UniqueIds(ev.edit.before)
   /\ ev.edit.id \in AllIds(ev.edit.before))
    => /\ ev.edit.id \notin AllIds(draft)
       /\ findBlockById(draft, ev.edit.id) = NoBlock

\* A move that the rules do not refuse: the ids differ, both occur in the
\* tree, and the target is not inside the subtree of the moving step.
NotRefused ==
  /\ ev.edit.id # ev.edit.targetId
  /\ {ev.edit.id, ev.edit.targetId} \subseteq AllIds(ev.edit.before)
  /\ ev.edit.targetId \notin AllIds(Find(ev.edit.before, ev.edit.id).children)

\* C23: a move with position before, after or inside that is not refused
\* leaves the number of steps, counted through every container, as it was.
C23_MoveConservesTheStepCount ==
  (Moved /\ UniqueIds(ev.edit.before) /\ NotRefused)
    => countSteps(draft) = countSteps(ev.edit.before)

\* C24: inserting a new step s relative to any x at any position and then
\* deleting s.id gives a tree with as many steps as the tree had.
C24_InsertThenDeleteConservesTheStepCount ==
  Inserted
    => countSteps(deleteBlockTree(draft, ev.edit.block.id))
         = countSteps(ev.edit.before)

C24_Witness ==
  /\ Inserted
  /\ ev.edit.position = "inside"
  /\ Find(ev.edit.before, "L1") # NoBlock
  /\ ev.edit.targetId = "L2"
  /\ Find(Find(draft, "L1").children, ev.edit.block.id) # NoBlock
  /\ countSteps(draft) = countSteps(ev.edit.before) + 1

\* C25: moving a container to a target inside its own subtree returns a tree
\* equal to the input.
C25_MoveIntoOwnSubtreeIsRefused ==
  (/\ Moved
   /\ Find(ev.edit.before, ev.edit.id) # NoBlock
   /\ Find(ev.edit.before, ev.edit.id).type \in Containers
   /\ ev.edit.targetId
        \in AllIds(Find(ev.edit.before, ev.edit.id).children))
    => draft = ev.edit.before

C25_Witness ==
  /\ Moved
  /\ ev.edit.id = "L1"
  /\ ev.edit.targetId = "w3"
  /\ findBlockById(ev.edit.before, "w3") # NoBlock
  /\ Find(ev.edit.before, "L1") # NoBlock
  /\ Find(Find(ev.edit.before, "L1").children, "L2") # NoBlock
  /\ draft = ev.edit.before

\* The cases in which a move is to return its input: the ids are equal, or
\* one of them does not occur in the tree.
Refusal ==
  \/ ev.edit.id = ev.edit.targetId
  \/ ev.edit.id \notin AllIds(ev.edit.before)
  \/ ev.edit.targetId \notin AllIds(ev.edit.before)

\* C26: a move returns a tree equal to its input when movingId equals
\* targetId, when movingId does not occur in the tree, or when targetId does
\* not occur in the tree; the moving step is not removed in any of these cases.
C26_RefusedMoveReturnsTheInput ==
  ((Moved \/ ev.op = "alarmEditor") /\ Refusal) => draft = ev.edit.before

\* Lemma: moveBlock of blockTree.ts does return its input in these cases.
TimerEditorMoveRefusals == (Moved /\ Refusal) => draft = ev.edit.before

\* C27: insertRelative with a targetId that does not occur in the tree returns
\* a tree equal to the input, without the new step.
C27_InsertAtAbsentTargetIsIgnored ==
  (Inserted /\ ev.edit.targetId \notin AllIds(ev.edit.before))
    => /\ draft = ev.edit.before
       /\ ev.edit.block.id \notin AllIds(draft)

C27_Witness ==
  /\ Inserted
  /\ ev.edit.targetId = Unknown
  /\ Find(ev.edit.before, "L2") # NoBlock
  /\ draft = ev.edit.before

\* C28: insertRelative with position inside on a target of a container kind
\* (Loop or NotifyUntil) returns a tree in which the new step is the last child
\* of that container and every other step is unchanged; on a leaf target it
\* returns the tree unchanged.
C28_InsertInsideAppendsToTheContainer ==
  (/\ Inserted
   /\ ev.edit.position = "inside"
   /\ Find(ev.edit.before, ev.edit.targetId) # NoBlock)
    => LET target == Find(ev.edit.before, ev.edit.targetId)
       IN IF target.type \in Containers
            THEN /\ Find(draft, target.id).children
                      = Append(target.children, ev.edit.block)
                 /\ Without(draft, ev.edit.block.id) = ev.edit.before
            ELSE draft = ev.edit.before

\* --------------------------------------------------- claims on the stopwatch
\* What stop(t) and then, dt later, stop(t) again leave, against what the
\* first stop(t) leaves.
StopAgain(t, dt) ==
  LET once == stop(World, t)
      twice == stop([once EXCEPT !.now = @ + dt], t)
  IN /\ twice.controlRefs = once.controlRefs
     /\ twice.runs = once.runs
     /\ twice.runningMap = once.runningMap
     /\ twice.stopwatchMap = once.stopwatchMap

\* C21: for any state and any id, of a timer or of none, stop(id) applied
\* twice in succession leaves the abort and pause flags, the pending resume
\* waiters, the reported run state and the stopwatch state that one stop(id)
\* leaves.
C21_StopIsIdempotent ==
  \A t \in DOMAIN timers \cup {NoTimer} : \A dt \in {0, Quantum} :
    StopAgain(t, dt)

C21_Witness ==
  /\ ev.op = "stop" /\ ev.tid = "A"
  /\ \E r \in Runs :
       runs[r].tid = "A" /\ runs[r].await = "ready" /\ runs[r].aborted
  /\ controlRefs["A"].abort /\ controlRefs["A"].resumeResolvers = <<>>
  /\ stopwatchMap["A"] = ZeroEntry
  /\ stopwatchMap["W"].isRunning /\ now > stopwatchMap["W"].startedAt

Watches == {t \in DOMAIN timers : timers[t].mode = "simpleStopwatch"}

\* What getElapsedMs(t) reads.
Reading(map, t, clock) == getStopwatchElapsed(Entry(map, t), clock)

Running(map, t) == t \in DOMAIN map /\ map[t].isRunning

\* C29: over start, pause and stop calls without reset the elapsed time of a
\* stopwatch never decreases, does not change while the stopwatch is not
\* running (between a pause or stop and the next start), goes on from the
\* accumulated value at a start, and grows by the time that passes while the
\* stopwatch runs: it is the total time spent running.
C29_ElapsedIsTheTimeSpentRunning ==
  [][\A t \in Watches :
       LET before == Reading(stopwatchMap, t, now)
           after == Reading(stopwatchMap', t, now')
       IN ~(ev'.op = "restart" /\ ev'.tid = t)
            => /\ after >= before
               /\ ~Running(stopwatchMap, t) => after = before
               /\ (ev'.op = "start" /\ ev'.tid = t)
                    => after = before /\ Running(stopwatchMap', t)
               /\ (ev'.op \in {"pause", "stop"} /\ ev'.tid = t)
                    => after = before /\ ~Running(stopwatchMap', t)
               /\ (ev'.op = "tick" /\ Running(stopwatchMap, t))
                    => after = before + Quantum
               /\ ev'.op # "tick" => after = before]_vars

C29_Witness ==
  /\ ev.op = "start" /\ ev.tid = "W"
  /\ ~ev.watch.isRunning /\ ev.watch.elapsedMs > 0
  /\ stopwatchMap["W"].isRunning
  /\ stopwatchMap["W"].startedAt = now
  /\ Reading(stopwatchMap, "W", now) = ev.watch.elapsedMs

\* C30: restart on a stopwatch timer, whatever its state (never started,
\* running, paused, stopped), sets the elapsed time to 0 and leaves the
\* stopwatch running: the time read grows with the clock from 0.
C30_RestartBeginsAtZero ==
  [][\A t \in Watches :
       /\ (ev'.op = "restart" /\ ev'.tid = t)
            => /\ Reading(stopwatchMap', t, now') = 0
               /\ Running(stopwatchMap', t)
       /\ (ev.op = "restart" /\ ev.tid = t /\ ev'.op = "tick")
            => Reading(stopwatchMap', t, now') = Quantum]_vars

C30_Witness ==
  /\ ev.op = "restart" /\ ev.tid = "W"
  /\ ~ev.watch.isRunning /\ ev.watch.elapsedMs > 0
  /\ Reading(stopwatchMap, "W", now) = 0
  /\ stopwatchMap["W"].isRunning

\* --------------------------------------------------- claims on the time utils
\* The call of fn the play menu has just made.
Called(fn) == ev.op = "PlayMenu" /\ ev.call.fn = fn

\* The time of day H:MM AM/PM names, as ms after 0:00.
WallTime(time, ampm) ==
  LET h == CHOOSE h \in 1..12 : \E m \in 0..59 : Clock(h, m) = time
      m == CHOOSE m \in 0..59 : Clock(h, m) = time
  IN ((h % 12) + (IF ampm = "PM" THEN 12 ELSE 0)) * HourMs + m * MinuteMs

\* The result of msUntilTime is more than 0, at most `most`, and the distance
\* to the time of day today, or tomorrow when today's is now or has passed.
NextOccurrence(most) ==
  LET wall == WallTime(ev.call.time, ev.call.ampm)
      ms == ev.call.result[1]
  IN /\ Len(ev.call.result) = 1
     /\ ms > 0 /\ ms <= most
     /\ ms = (IF setHours(today, wall) <= now THEN today + wall
                                                ELSE setHours(today, wall)) - now

\* C31: for every valid 12-hour clock time and every instant, msUntilTime
\* returns more than 0 and at most 24 hours; when the time of day has been
\* reached or has passed today, it is the distance to that time tomorrow.
C31_MsUntilTimeIsWithinADay == Called("msUntilTime") => NextOccurrence(DayMs)

\* On a day of 24 hours it is so, equality included.
MsUntilTimeOnADayOf24Hours ==
  Called("msUntilTime") /\ today = DayMs => NextOccurrence(DayMs)

MsUntilTimeOnADayOf24HoursWitness ==
  /\ Called("msUntilTime") /\ today = DayMs
  /\ WallTime(ev.call.time, ev.call.ampm) = now
  /\ ev.call.result = Ms(DayMs)

\* On any day it is more than 0 and at most 25 hours.
MsUntilTimeIsWithin25Hours ==
  Called("msUntilTime") => NextOccurrence(DayMs + HourMs)

\* The milliseconds of a unit.
UnitMs(unit) ==
  CASE unit = "seconds" -> 1000
    [] unit = "minutes" -> 60000
    [] unit = "hours" -> 3600000
    [] unit = "days" -> 86400000

\* The wait the play menu has asked unitToMs about.
Asked == timers[ev.tid].blocks[1]

NoTime(amount) == amount = NoAmount \/ amount <= 0

\* C32: unitToMs gives the amount times 1000, 60000, 3600000 or 86400000
\* for seconds, minutes, hours and days, and 0 for a negative or missing
\* amount; a Wait step of a zero, negative or missing amount completes at
\* once: the next step is activated in the same task.
C32_DurationIsLinearAndClamped ==
  /\ (Called("unitToMs") /\ Asked.unit \in Units \ {"weeks"})
       => ev.call.result =
            Ms(IF NoTime(Asked.amount) THEN 0
               ELSE Asked.amount * UnitMs(Asked.unit))
  /\ \A t \in DOMAIN timers : \A j \in DOMAIN timers[t].blocks :
       (timers[t].blocks[j].type = "wait" /\ NoTime(timers[t].blocks[j].amount)
          /\ ev.tid = t /\ j < Len(timers[t].blocks))
       => \A k \in DOMAIN ev.activated :
            ev.activated[k] = timers[t].blocks[j].id
            => (k < Len(ev.activated)
                /\ ev.activated[k + 1] = timers[t].blocks[j + 1].id)

\* unitToMs is linear for every amount it is given, negative ones too; the
\* callers hand it 0 for a missing amount.
UnitToMsIsLinear ==
  (Called("unitToMs") /\ Asked.unit \in Units \ {"weeks"})
    => ev.call.result = Ms(OrZero(Asked.amount) * UnitMs(Asked.unit))

\* A Wait step of no time completes at once.
WaitOfNoTimeCompletesAtOnce ==
  \A k \in DOMAIN ev.activated :
    (ev.activated[k] = "w1" /\ NoTime(timers[ev.tid].blocks[1].amount))
      => (k < Len(ev.activated) /\ ev.activated[k + 1] = "p1")

WaitOfNoTimeWitness ==
  /\ ev.op = "start" /\ ev.activated = <<"w1", "p1">>
  /\ timers[ev.tid].blocks[1].amount = NoAmount

\* ------------------------------------------------ claims on the list of timers
\* What two names are compared by.
Key(name) == toLowerCase(trim(name))

\* The calls of createTimer and updateTimer the last handler has made.
NameCalls == {ev.calls[k] : k \in DOMAIN ev.calls}

\* The names, as compared, of the timers of a list other than the timer id.
Taken(ts, id) == {Key(ts[k].name) : k \in {j \in DOMAIN ts : ts[j].id # id}}

\* The name asked for, trimmed, or the fallback when nothing is left.
Base(c) == IF trim(c.requested) = <<>> THEN NewTimerName ELSE trim(c.requested)

NameIsUnique(c) ==
  /\ trim(c.name) # <<>>
  /\ Key(c.name) \notin Taken(c.after, c.id)

CollisionIsSuffixed(c) ==
  Key(Base(c)) \in Taken(c.after, c.id)
    => \E i \in 2..(Len(c.after) + 2) :
         /\ c.name = Base(c) \o toString(i)
         /\ \A j \in 2..(i - 1) :
              Key(Base(c) \o toString(j)) \in Taken(c.after, c.id)

OwnNameIsKept(c) ==
  (c.fn = "updateTimer"
     /\ \E k \in DOMAIN c.before :
          c.before[k].id = c.id /\ c.before[k].name = c.requested)
    => c.name = c.requested

\* C33: after every createTimer and updateTimer the name of the timer is not
\* empty after trimming and differs, compared without case after trimming,
\* from the name of every other timer of the list; a colliding name gets the
\* smallest free suffix from 2 on, and renaming a timer to its own name
\* leaves the name as it is.
C33_NamesAreUnique ==
  \A c \in NameCalls :
    NameIsUnique(c) /\ CollisionIsSuffixed(c) /\ OwnNameIsKept(c)

\* All of it but the last part holds.
NamesAreUniqueAndSuffixed ==
  \A c \in NameCalls : NameIsUnique(c) /\ CollisionIsSuffixed(c)

NamesAreSuffixedWitness ==
  \E c \in NameCalls :
    /\ c.fn = "updateTimer" /\ c.requested = <<"A">>
    /\ c.name = <<"A", "3">>

\* ------------------------------------------------ claims on the reported state
\* The state a timer is reported in: running, paused (not running, with the
\* pause flag set) or idle.
Phase(t) ==
  IF t \notin DOMAIN runningMap THEN "Idle"
  ELSE IF runningMap[t].isRunning THEN "Running"
  ELSE IF t \in DOMAIN controlRefs /\ controlRefs[t].paused THEN "Paused"
  ELSE "Idle"

\* A run of t is live, and t is neither paused nor aborted.
Executing(t) ==
  /\ \E r \in RunsOf(t) : Live(r)
  /\ t \in DOMAIN controlRefs
  /\ ~controlRefs[t].paused /\ ~controlRefs[t].abort

Moves ==
  {<<"Idle", "Running">>, <<"Running", "Paused">>, <<"Paused", "Running">>,
   <<"Running", "Idle">>, <<"Paused", "Idle">>}

\* C34: a timer reported as running has a live run that is neither paused
\* nor aborted, and the reported state only moves along Idle -> Running ->
\* {Paused <-> Running} -> Idle.
C34_RunningMeansARunExecutes ==
  [][\A t \in DOMAIN timers :
       /\ (Phase(t) = "Running")' => Executing(t)'
       /\ Phase(t)' # Phase(t) => <<Phase(t), Phase(t)'>> \in Moves]_vars

\* ------------------------------------------------ claims on the order of steps
\* The ids of seq that are in S, in the order of seq.
RECURSIVE Among(_, _)
Among(seq, S) ==
  IF seq = <<>> THEN <<>>
  ELSE (IF Head(seq) \in S THEN <<Head(seq)>> ELSE <<>>) \o Among(Tail(seq), S)

\* The ids of the steps a to b of a sequence, in list order.
RECURSIVE StepIds(_, _, _)
StepIds(blocks, a, b) ==
  IF a > b THEN <<>> ELSE <<blocks[a].id>> \o StepIds(blocks, a + 1, b)

\* The first step of the sequence of frame f that f has not activated yet.
Pending(f) == IF f.pc = "next" THEN f.i + 1 ELSE f.i

\* Frame k of run r is the same call of runBlocks before and after the step:
\* nothing below it has moved.
SameCall(r, k) ==
  /\ k \in DOMAIN runs[r].stack /\ k \in DOMAIN runs'[r].stack
  /\ runs[r].stack[k].fn = "runBlocks" /\ runs'[r].stack[k].fn = "runBlocks"
  /\ runs[r].stack[k].blocks = runs'[r].stack[k].blocks
  /\ \A j \in 1..(k - 1) : runs[r].stack[j] = runs'[r].stack[j]

\* The step activated the steps a .. b of blocks, one after the other.
ActivatedInOrder(blocks, a, b) ==
  Among(ev'.activated, {blocks[k].id : k \in DOMAIN blocks})
    = StepIds(blocks, a, b)

\* The executor of the step a call of runBlocks has activated is still
\* running: its frame is on the stack, above the frame of the call.
ExecutorRuns(r, k) ==
  /\ runs[r].stack[k].pc = "next"
  /\ k < Len(runs[r].stack)

StepsGoInListOrder ==
  \A r \in 1..Len(runs') :
    ev'.run = r /\ ev'.op \in RunOps \cup {"start"} =>
      LET t == runs'[r].tid
          root == timers[t].blocks
          from == IF r \in Runs THEN Pending(runs[r].stack[1]) ELSE 1
      IN /\ IF runs'[r].stack = <<>>
              THEN \E b \in (from - 1)..Len(root) :
                     /\ ActivatedInOrder(root, from, b)
                     /\ b < Len(root) => controlRefs'[t].abort
              ELSE ActivatedInOrder(root, from, Pending(runs'[r].stack[1]) - 1)
         /\ r \in Runs =>
              \A k \in 2..Len(runs[r].stack) :
                SameCall(r, k) =>
                  /\ ActivatedInOrder(runs[r].stack[k].blocks,
                                      Pending(runs[r].stack[k]),
                                      Pending(runs'[r].stack[k]) - 1)
                  /\ ExecutorRuns(r, k) /\ ExecutorRuns(r, k)'
                       /\ runs[r].stack[k].i = runs'[r].stack[k].i
                       => ActivatedInOrder(runs[r].stack[k].blocks, 1, 0)

\* A run that finds abort or the pause flag set activates no step.
NoStepWhileAbortedOrPaused ==
  \A r \in Runs :
    /\ ev'.run = r /\ ev'.op \in RunOps
    /\ controlRefs[runs[r].tid].abort \/ controlRefs[runs[r].tid].paused
    => ev'.activated = <<>>

\* C35: a run activates the steps of a sequence strictly in list order, each
\* one only after the executor of the one before it has returned; it
\* activates no step when it finds abort set, and none while the pause flag
\* is set.
C35_StepsRunInListOrder ==
  [][StepsGoInListOrder /\ NoStepWhileAbortedOrPaused]_vars

\* A run goes on from its first step, a loop, to its second and its third
\* within one handler.
C35_Witness ==
  /\ ev.op \in RunOps
  /\ ev.activated = <<"u1", "p1">>
  /\ \E r \in Runs : r = ev.run /\ Len(runs[r].stack) = 2

\* --------------------------------------------- claims on the cycles of NotifyUntil
\* The NotifyUntil steps without children of the timer of the last handler.
Childless ==
  IF ev.tid \notin DOMAIN timers THEN {}
  ELSE UNION {{seq[k].id : k \in {j \in DOMAIN seq :
                                     /\ seq[j].type = "notifyUntil"
                                     /\ seq[j].children = <<>>}}
              : seq \in SequencesOf(timers[ev.tid].blocks)}

\* C36: every activity cycle of a NotifyUntil without children plays the
\* sound of the step: the handler that begins the cycle begins the playback,
\* and the run goes on when the playback has ended, to sleep for the interval
\* of the step only after that.
C36_ChildlessCyclePlaysTheSound ==
  \A k \in DOMAIN ev.cycles :
    ev.cycles[k].id \in Childless =>
      /\ ev.sound
      /\ ev.run \in Runs /\ runs[ev.run].await = "sound"

\* ------------------------------------------------ claims on the place of a step
\* x is the step right before (after) y in the sibling list of y.
Placed(blocks, x, y, position) ==
  \E seq \in SequencesOf(blocks) : \E k \in 1..(Len(seq) - 1) :
    IF position = "before" THEN seq[k].id = x /\ seq[k + 1].id = y
    ELSE seq[k].id = y /\ seq[k + 1].id = x

\* The last handler inserted or moved the step ev.edit.id before or after a
\* step of the tree: the ids of the tree are unique, the target is in it and
\* is another step, and a moved step is in the tree and does not hold the
\* target.
PlacedBeside ==
  /\ Inserted \/ Moved
  /\ ev.edit.position \in {"before", "after"}
  /\ UniqueIds(ev.edit.before)
  /\ ev.edit.targetId \in AllIds(ev.edit.before)
  /\ ev.edit.targetId # ev.edit.id
  /\ Moved => /\ ev.edit.id \in AllIds(ev.edit.before)
              /\ ev.edit.targetId
                   \notin AllIds(Find(ev.edit.before, ev.edit.id).children)

\* The step is right before (after) its target, and the tree without the
\* step is the tree as it was without the step: every other step is where it
\* was, in every sibling list.
IsBesideItsTarget ==
  /\ Placed(draft, ev.edit.id, ev.edit.targetId, ev.edit.position)
  /\ Without(draft, ev.edit.id) = Without(ev.edit.before, ev.edit.id)

\* C37: a step inserted or moved with position before (after) and a target
\* of the tree is right before (after) the target in the sibling list of the
\* target, and every other step is where it was.
C37_StepIsPlacedBesideItsTarget == PlacedBeside => IsBesideItsTarget

\* The steps blockTree.ts finds: those not below a NotifyUntil.
Found(id) == findBlockById(ev.edit.before, id) # NoBlock

\* The claim holds where the target, and the step of a move, are not below a
\* NotifyUntil; moving a after b in [a, b, c] gives [b, a, c].
StepIsPlacedBesideATargetItFinds ==
  /\ (/\ PlacedBeside
      /\ Found(ev.edit.targetId)
      /\ Moved => Found(ev.edit.id))
       => IsBesideItsTarget
  /\ applyExistingDrop(<<Leaf("a"), Leaf("b"), Leaf("c")>>, "a",
                       Drop("block", "b", "after"))
       = <<Leaf("b"), Leaf("a"), Leaf("c")>>

StepIsPlacedWitness ==
  /\ Moved /\ PlacedBeside /\ ev.edit.position = "after"
  /\ ev.edit.id = "L2" /\ ev.edit.targetId = "w1"
  /\ Placed(draft, "L2", "w1", "after")

\* --------------------------------------------------- claims on the ids of a tree
\* The last handler moved a step of the tree: a drop on a block, on the root,
\* or handleDropOnBlock of AlarmEditor.
MovedAnywhere == ev.op \in {"block", "root", "root-empty", "alarmEditor"}

\* The moved step, where the tree still has it, is the step it was, with all
\* its descendants, and the move has made no id.
MoveKeepsTheIds ==
  /\ AllIds(draft) \subseteq AllIds(ev.edit.before)
  /\ Find(draft, ev.edit.id) # NoBlock
       => Find(draft, ev.edit.id) = Find(ev.edit.before, ev.edit.id)

\* C38: an edit of a tree with pairwise distinct ids (a delete, an insert of
\* a step with an id the tree does not have, a move) gives a tree with
\* pairwise distinct ids, and a move keeps the ids of the moved step and of
\* all its descendants.
C38_EditsKeepIdsUniqueAndStable ==
  (ev.op # "init" /\ UniqueIds(ev.edit.before))
    => /\ UniqueIds(draft)
       /\ MovedAnywhere => MoveKeepsTheIds

\* A loop with its two descendants is moved to another place.
C38_Witness ==
  /\ Moved /\ ev.edit.id = "L1" /\ draft # ev.edit.before
  /\ UniqueIds(ev.edit.before) /\ UniqueIds(draft)
  /\ Cardinality(AllIds(<<Find(draft, "L1")>>)) > 2
  /\ Find(draft, "L1") = Find(ev.edit.before, "L1")

\* ------------------------------------------------ claims on the state after stop
\* stop(t) has returned and no start or restart of t has followed: abort is
\* set by stopBlocks only and cleared by startBlocks only.
Stopped(t) == t \in DOMAIN controlRefs /\ controlRefs[t].abort

\* C39: from stop(t) until the next start or restart of t the reported state
\* of t is isRunning false, activeBlockId null, remainingMs null in every
\* state: the run that was cancelled writes no step id on its way out.
C39_StoppedStaysIdle ==
  \A t \in DOMAIN timers : Stopped(t) => runningMap[t] = Idle

\* Between the handlers of the event loop it is so: whatever the cancelled
\* run writes on its way out, its finally block has overwritten when the
\* last of its continuations has run.
StoppedIsIdleBetweenTasks ==
  TaskBoundary => \A t \in DOMAIN timers : Stopped(t) => runningMap[t] = Idle

StoppedIsIdleWitness ==
  /\ TaskBoundary /\ ev.op \in RunOps
  /\ Stopped(ev.tid) /\ runs[ev.run].await = "done" /\ runs[ev.run].aborted
  /\ runningMap[ev.tid] = Idle

\* ---------------------------------------------- claims on the waiters of a pause
\* The runs of t that are suspended in waitWhilePaused.
Blocked(t) == {r \in RunsOf(t) : runs[r].await = "resume"}

\* The runs whose resolve is in the list of t.
Waiters(t) ==
  {controlRefs[t].resumeResolvers[k] : k \in DOMAIN controlRefs[t].resumeResolvers}

\* C40: a run is suspended in waitWhilePaused only while the pause flag of
\* its timer is set and abort is not, and its resolve is then in the list of
\* the timer; the list holds nothing else, and it is empty when a start (as
\* a resume or as a new run), a restart or a stop of the timer has returned.
C40_NoRunStaysBlocked ==
  \A t \in DOMAIN timers :
    /\ Blocked(t) # {} =>
         /\ t \in DOMAIN controlRefs
         /\ controlRefs[t].paused /\ ~controlRefs[t].abort
    /\ t \in DOMAIN controlRefs =>
         /\ Waiters(t) = Blocked(t)
         /\ (ev.op \in {"start", "restart", "stop"} /\ ev.tid = t)
              => controlRefs[t].resumeResolvers = <<>>

\* start on a paused timer has woken the run that waited: it goes on at the
\* check after waitWhilePaused, and the list is empty.
C40_Witness ==
  /\ ev.op = "start" /\ ~ev.fresh
  /\ controlRefs[ev.tid].resumeResolvers = <<>>
  /\ ~controlRefs[ev.tid].paused
  /\ \E r \in RunsOf(ev.tid) :
       /\ runs[r].await = "ready"
       /\ runs[r].stack # <<>>
       /\ runs[r].stack[Len(runs[r].stack)].pc = "resumed"
====
